---- MODULE Spec2Model ----
(***************************************************************************)
(* Model of the MEXC spot/perpetual arbitrage scanner (src/scanner.py,     *)
(* src/database.py, src/config.py).                                        *)
(*                                                                         *)
(* Nine specifications share the variables of this module:                *)
(*   Spec       the scan loop: main_loop, process_and_notify,              *)
(*              fetch_data_for_pair, save_signal;                          *)
(*   SpecLive   Spec with weak fairness of the steps of the loop;          *)
(*   SpecFetch  concurrent calls of fetch_spot_price / fetch_futures_price *)
(*              through the module-level semaphore and rate_limit().       *)
(*   SpecPairs  get_top_symbol_pairs applied to a contract listing, a      *)
(*              volume ranking and a limit drawn from bounded sets;        *)
(*   SpecNormalize  normalize_symbol(s, 'spot') applied once and again to a *)
(*              symbol drawn from a bounded set;                           *)
(*   SpecNotify rounds of notify_subscribers with their concurrent sends,  *)
(*              while users subscribe and unsubscribe;                     *)
(*   SpecSymbols calls of symbols_loader.get_top_symbols with its cache;   *)
(*   SpecClassify the helpers of create_signal_message applied to a spread *)
(*              and a volume drawn from bounded sets;                      *)
(*   SpecRegistry calls of add_subscriber and remove_subscriber with the   *)
(*              values they return.                                        *)
(*                                                                         *)
(* Prices are integers and spreads are exact rationals [num, den]: the     *)
(* float arithmetic of the source is modelled without rounding.            *)
(*                                                                         *)
(* Time is discrete and relative: instead of time.time() the model keeps   *)
(* the differences the code computes from it (elapsed, since_last) and the *)
(* time left of each sleep.  MIN_INTERVAL and BACKOFF_UNIT are durations   *)
(* in ticks, scaled independently of each other; FAST_TIER_SIZE and        *)
(* API_MAX_CONCURRENT_REQUESTS are scaled down so that lists of MaxPairs   *)
(* pairs and NumTasks concurrent calls reach them.                         *)
(***************************************************************************)
EXTENDS Integers, Sequences, FiniteSets, TLC

\* ------------------------------------------------------------------------
\* Bounds of the model (not program constants)
\* ------------------------------------------------------------------------
MaxPairs == 3
NumTasks == 3
\* longest volume ranking and longest contract listing given to
\* get_top_symbol_pairs
MaxRank == 4
MaxListing == 2
\* longest symbol given to normalize_symbol on its own
MaxSymLen == 6
\* users that can subscribe
NumUsers == 3
\* time between two observations of the clock of symbols_loader
ClockStep == 20
\* the spreads given to the helpers of create_signal_message are the
\* multiples of 1/SpreadDen up to MaxSpreadNum/SpreadDen percent
SpreadDen == 4
MaxSpreadNum == 40

\* ------------------------------------------------------------------------
\* Program constants (src/config.py, src/scanner.py)
\* ------------------------------------------------------------------------
\* config.py:10 THRESHOLD_PERCENT = 1.5
THRESHOLD_PERCENT == [num |-> 3, den |-> 2]
\* config.py:11 THRESHOLD_NOTIFY_PERCENT = 2.0
THRESHOLD_NOTIFY_PERCENT == [num |-> 2, den |-> 1]
CHECK_INTERVAL_FAST == 30
CHECK_INTERVAL_SLOW == 120
PAIRS_UPDATE_INTERVAL == 3600
\* scanner.py:434-435 splits at 50; scaled to 2 so that lists of MaxPairs
\* pairs have a slow tier
FAST_TIER_SIZE == 2
\* scanner.py:52 _min_interval = 1 / API_RATE_LIMIT, in clock ticks
MIN_INTERVAL == 2
\* config.py:22 is 10; scaled to 2 so that NumTasks calls contend for the slots
API_MAX_CONCURRENT_REQUESTS == 2
\* scanner.py:211, 230 retries=3
RETRIES == 3
\* config.py:20 is 100; scaled to 4, the length of the ranking the loop reads
TOP_VOLUME_LIMIT == 4
\* scanner.py:226 the 1.5 seconds of the backoff, in clock ticks
BACKOFF_UNIT == 1
\* scanner.py:346 asyncio.Semaphore(5); scaled to 2 so that NumUsers
\* recipients contend for the slots
NOTIFY_CONCURRENCY == 2
\* scanner.py:381 asyncio.sleep(3) after a TimedOut, in clock ticks
TIMEOUT_COOLDOWN == 3
\* symbols_loader.py:5
CACHE_TTL == 60
\* config.py:12
RISK_MULTIPLIER == 3
\* scanner.py:111 the cap of the leverage
MAX_LEVERAGE == 20

None == [kind |-> "none"]

\* ------------------------------------------------------------------------
\* Exact rational arithmetic standing for the float expressions
\* ------------------------------------------------------------------------
Abs(x) == IF x < 0 THEN -x ELSE x

Min(a, b) == IF a < b THEN a ELSE b

RatAbs(q) == [num |-> Abs(q.num), den |-> Abs(q.den)]

RatTimes(q, k) == [num |-> q.num * k, den |-> q.den]

\* q >= r for rationals with positive denominators
RatGE(q, r) == q.num * r.den >= r.num * q.den

RatEq(q, r) ==
    IF q.den = r.den THEN q.num = r.num ELSE q.num * r.den = r.num * q.den

\* ------------------------------------------------------------------------
\* JSON values
\* ------------------------------------------------------------------------
\* a JSON field: missing, not parsable by float(), a number, or a string
Absent == [t |-> "absent"]
Garbage == [t |-> "garbage"]
Num(n) == [t |-> "num", v |-> n]
Str(cs) == [t |-> "str", v |-> cs]

\* Python truthiness of a field read with dict.get, and `a or b`
Falsy(v) == v = Absent \/ v = Num(0) \/ v = Str(<<>>)
Or(a, b) == IF Falsy(a) THEN b ELSE a

\* ------------------------------------------------------------------------
\* Symbol matching (scanner.py:70-82, 154-208; symbols_loader.py:8-26)
\* ------------------------------------------------------------------------
\* str.upper() on the letters the inputs use
UpperChar(c) ==
    CASE c = "a" -> "A" [] c = "b" -> "B" [] c = "d" -> "D"
      [] c = "s" -> "S" [] c = "t" -> "T" [] c = "u" -> "U"
      [] OTHER -> c

Upper(s) == [i \in 1..Len(s) |-> UpperChar(s[i])]

StartsWith(s, x) == Len(s) >= Len(x) /\ SubSeq(s, 1, Len(x)) = x

EndsWith(s, x) == Len(s) >= Len(x) /\ SubSeq(s, Len(s) - Len(x) + 1, Len(s)) = x

\* `x in s` for strings
Contains(s, x) == \E i \in 0..(Len(s) - Len(x)) : StartsWith(SubSeq(s, i + 1, Len(s)), x)

\* s.replace(x, ""): every occurrence of x found from left to right is removed
RECURSIVE Remove(_, _)
Remove(s, x) ==
    IF s = <<>> THEN s
    ELSE IF StartsWith(s, x) THEN Remove(SubSeq(s, Len(x) + 1, Len(s)), x)
    ELSE <<Head(s)>> \o Remove(Tail(s), x)

TRUMP == <<"T", "R", "U", "M", "P">>

\* scanner.py:79 the alternatives of the regular expression
FuturesSuffixes == {
    <<"_", "P", "E", "R", "P">>,
    <<"_", "U", "S", "D">>,
    <<"_", "U", "S", "D", "T">>,
    <<"_", "F", "U", "T", "U", "R", "E">>,
    <<"_", "T", "H", "I", "S", "W", "E", "E", "K">>,
    <<"_", "N", "E", "X", "T", "W", "E", "E", "K">>,
    <<"_", "Q", "U", "A", "R", "T", "E", "R">>,
    <<"_", "N", "E", "X", "T", "Q", "U", "A", "R", "T", "E", "R">> }

\* re.sub(r"(...)$", "", s): the leftmost match that reaches the end of the
\* string is removed, that is the longest alternative the string ends with
StripSuffix(s) ==
    LET ms == {x \in FuturesSuffixes : EndsWith(s, x)}
    IN IF ms = {} THEN s
       ELSE LET x == CHOOSE m \in ms : \A y \in ms : Len(y) <= Len(m)
            IN SubSeq(s, 1, Len(s) - Len(x))

\* scanner.py:70-82
normalize_symbol(symbol, symbol_type) ==
    LET s == Upper(symbol)
    IN IF symbol_type = "spot"
       THEN Remove(Remove(s, <<"U", "S", "D", "T">>), <<"U", "S", "D">>)
       ELSE IF symbol_type = "futures" THEN Remove(StripSuffix(s), <<"_">>)
       ELSE s

\* an element of the "data" list of the contract listing: not a dict, or a
\* dict whose three name fields are missing, a number or a string
NonDict == [t |-> "nondict"]
Item(a, b, c) == [t |-> "dict", symbol |-> a, contractName |-> b, instrumentId |-> c]

ListingError == [kind |-> "transport_error"]
ListingNotList == [kind |-> "not_list"]
Listing(items) == [kind |-> "list", items |-> items]

\* scanner.py:166-175: the loop over data["data"]
RECURSIVE symbols_of(_)
symbols_of(items) ==
    IF items = <<>> THEN <<>>
    ELSE LET item == Head(items)
             rest == symbols_of(Tail(items))
         IN IF item.t # "dict" THEN rest
            ELSE LET symbol == Or(Or(item.symbol, item.contractName), item.instrumentId)
                 IN IF Falsy(symbol) THEN rest ELSE <<symbol>> \o rest

\* variant: a failed listing request leaves get_futures_symbols as an exception
get_futures_symbols_Raises(resp) ==
    IF resp.kind = "transport_error" THEN [kind |-> "raise"]
    ELSE IF resp.kind = "not_list" THEN [kind |-> "raise"]
    ELSE [kind |-> "ok", symbols |-> symbols_of(resp.items)]

\* scanner.py:154-180: [] when the request fails or "data" is not a list
get_futures_symbols(resp) ==
    IF resp.kind = "transport_error" THEN [kind |-> "ok", symbols |-> <<>>]
    ELSE IF resp.kind = "not_list" THEN [kind |-> "ok", symbols |-> <<>>]
    ELSE [kind |-> "ok", symbols |-> symbols_of(resp.items)]

\* symbols_loader.py:22-24: the first `limit` symbols of the volume ranking
get_top_symbols(ranking, limit) == SubSeq(ranking, 1, Min(Len(ranking), limit))

\* scanner.py:190: the ranked symbols are strings; the filter drops the
\* ones containing "TRUMP"
spot_symbols(ranking, limit) ==
    SelectSeq(get_top_symbols(ranking, limit * 3), LAMBDA s : ~Contains(s, TRUMP))

EmptyMap == [k \in {} |-> <<>>]

\* variant: the first symbol of a canonical form is kept
RECURSIVE futures_norm_map_FirstWins(_, _)
futures_norm_map_FirstWins(raw, m) ==
    IF raw = <<>> THEN m
    ELSE IF Head(raw).t # "str" THEN futures_norm_map_FirstWins(Tail(raw), m)
    ELSE LET f_sym == Head(raw).v
             norm_futures == normalize_symbol(f_sym, "futures")
         IN futures_norm_map_FirstWins(Tail(raw),
                [k \in DOMAIN m \cup {norm_futures} |->
                    IF k \in DOMAIN m THEN m[k] ELSE f_sym])

\* scanner.py:192-197: dict assignment, a later symbol replaces an earlier
\* one with the same canonical form
RECURSIVE futures_norm_map(_, _)
futures_norm_map(raw, m) ==
    IF raw = <<>> THEN m
    ELSE IF Head(raw).t # "str" THEN futures_norm_map(Tail(raw), m)
    ELSE LET f_sym == Head(raw).v
             norm_futures == normalize_symbol(f_sym, "futures")
         IN futures_norm_map(Tail(raw),
                [k \in DOMAIN m \cup {norm_futures} |->
                    IF k = norm_futures THEN f_sym ELSE m[k]])

\* variant: the loop does not stop when `limit` pairs are collected
RECURSIVE filtered_NoBreak(_, _, _, _)
filtered_NoBreak(spots, m, limit, acc) ==
    IF spots = <<>> THEN acc
    ELSE LET spot_sym == Head(spots)
             norm_spot == normalize_symbol(spot_sym, "spot")
         IN IF norm_spot \in DOMAIN m
            THEN filtered_NoBreak(Tail(spots), m, limit,
                                  Append(acc, <<spot_sym, m[norm_spot]>>))
            ELSE filtered_NoBreak(Tail(spots), m, limit, acc)

\* scanner.py:199-206: the loop over the ranked spot symbols
RECURSIVE filtered(_, _, _, _)
filtered(spots, m, limit, acc) ==
    IF spots = <<>> THEN acc
    ELSE LET spot_sym == Head(spots)
             norm_spot == normalize_symbol(spot_sym, "spot")
         IN IF norm_spot \in DOMAIN m
            THEN LET acc2 == Append(acc, <<spot_sym, m[norm_spot]>>)
                 IN IF Len(acc2) >= limit THEN acc2
                    ELSE filtered(Tail(spots), m, limit, acc2)
            ELSE filtered(Tail(spots), m, limit, acc)

\* scanner.py:183-208
get_top_symbol_pairs(resp, ranking, limit) ==
    LET futures_symbols_raw == get_futures_symbols(resp)
    IN IF futures_symbols_raw.kind = "raise" THEN [kind |-> "raise"]
       ELSE IF futures_symbols_raw.symbols = <<>> THEN [kind |-> "ok", pairs |-> <<>>]
       ELSE [kind |-> "ok",
             pairs |-> filtered(spot_symbols(ranking, limit),
                                futures_norm_map(futures_symbols_raw.symbols, EmptyMap),
                                limit, <<>>)]

\* ------------------------------------------------------------------------
\* Inputs
\* ------------------------------------------------------------------------
\* symbols are sequences of characters: the spot symbol and the contract of
\* a base currency
SpotSym(base) == base \o <<"U", "S", "D", "T">>
Contract(base) == base \o <<"_", "U", "S", "D", "T">>

PairUniverse == << <<SpotSym(<<"A">>), Contract(<<"A">>)>>,
                   <<SpotSym(<<"B">>), Contract(<<"B">>)>>,
                   <<SpotSym(<<"C">>), Contract(<<"C">>)>>,
                   <<SpotSym(<<"D">>), Contract(<<"D">>)>> >>

\* what the scan loop's refresh reads: the volume ranking of the spot
\* symbols, and a contract listing that fails or lists the first n contracts
LoopRanking == [i \in 1..Len(PairUniverse) |-> PairUniverse[i][1]]

LoopListings ==
    {ListingError, ListingNotList} \cup
    { Listing([i \in 1..n |-> Item(Str(PairUniverse[i][2]), Absent, Absent)]) :
        n \in 0..MaxPairs }

\* inputs of get_top_symbol_pairs called on its own: rankings over spot
\* symbols with a contract (A, B), without one (X) and denied (TRUMP);
\* listings over contracts named by "symbol" or by "contractName", a second
\* contract of A, a non-dict element and a non-string name
SeqsUpTo(S, n) == UNION { [1..k -> S] : k \in 0..n }

SpotPool == {SpotSym(<<"A">>), SpotSym(<<"B">>), SpotSym(<<"X">>), SpotSym(TRUMP),
             SpotSym(<<"A", "U", "S", "D">>)}

ItemPool == { Item(Str(Contract(<<"A">>)), Absent, Absent),
              Item(Absent, Str(Contract(<<"B">>)), Absent),
              Item(Str(Contract(TRUMP)), Absent, Absent),
              Item(Absent, Absent, Str(<<"A", "_", "P", "E", "R", "P">>)),
              Item(Num(7), Absent, Absent),
              NonDict }

Limits == 0..2

\* the letters of the symbols given to normalize_symbol on its own
Alphabet == {"A", "U", "S", "D", "T"}

\* a ranking lists every symbol once (symbols_loader.py:19-22: one element
\* per ticker of the exchange)
Rankings ==
    { r \in SeqsUpTo(SpotPool, MaxRank) :
        \A i, j \in 1..Len(r) : i # j => r[i] # r[j] }

PairInputs ==
    [kind : {"input"},
     listing : {ListingError, ListingNotList}
                   \cup { Listing(items) : items \in SeqsUpTo(ItemPool, MaxListing) },
     ranking : Rankings,
     limit : Limits,
     result : {None}]

SpotPrices == {-1, 0, 100, 200, 50000}
FutPrices == {0, 100, 102, 108, 203, 50250}
Volumes == {0, 2000000}

\* what the body of one awaited leg of fetch_data_for_pair can do: return
\* a value, or raise an Exception
SpotOutcomes == [kind : {"ok"}, price : SpotPrices, volume : Volumes]
                    \cup {[kind |-> "raise"]}
FutOutcomes == [kind : {"ok"}, price : FutPrices] \cup {[kind |-> "raise"]}

\* notify_subscribers either returns or raises (e.g. from get_subscribers or
\* create_signal_message, which it calls outside any try block)
NotifyOutcomes == {"ok", "raise"}

VARIABLES
    \* ---- scan loop (main_loop, process_and_notify) ----
    pc,         \* position of main_loop
    tier,       \* "fast" or "slow": the tier being scanned
    elapsed,    \* time.time() - last_pairs_update, saturated above PAIRS_UPDATE_INTERVAL
    pairs,      \* local of main_loop
    idx,        \* position of the for loop of process_and_notify (1-based)
    spot,       \* result of the spot leg of the current pair
    fetched,    \* indices of the tier whose fetch was started in this scan
    raisedAt,   \* indices of the tier whose fetch/evaluate raised in this scan
    scanEnd,    \* how the last tier scan ended
    evalIn,     \* inputs of the evaluation made in the last step
    signal,     \* result of fetch_data_for_pair in the last step
    route,      \* what process_and_notify did with that result
    db,         \* rows of table arbitrage_signals
    sinceFast,  \* time slept since the last scan of the fast tier ended; -1 before it
    refresh,    \* the call of get_top_symbol_pairs made in the last step: inputs, result
    \* ---- concurrent fetches (fetch_spot_price, fetch_futures_price) ----
    fpc,        \* position of each fetch call
    sem,        \* semaphore._value
    since_last, \* time.time() - _last_request_time, saturated at MIN_INTERVAL
    remaining,  \* time left of the asyncio.sleep a call is suspended in
    attempt,    \* loop variable of the retry loop (0-based)
    requests,   \* ticker requests issued by the call so far
    lastGap,    \* time between the two latest returns of rate_limit(), saturated
    lastExit,   \* the latest end of a call: how, with what value, after how many requests
    rateLimited, \* the last step received a rate-limited response (code 510)
    exits,      \* the ways in which calls have ended so far
    \* ---- normalize_symbol on its own ----
    norm,       \* a symbol and the results of normalizing it once and again
    \* ---- notify_subscribers ----
    subscribers, \* the rows of the subscribers table, in the order of their key user_id
    sendFunc,   \* the send_message_func given to main_loop: its signature, or none
    round,      \* the call of notify_subscribers: phase, recipients read, those of the call before
    npc,        \* where send_message(u) of the round is
    nsem,       \* value of sem_notify
    cool,       \* time left of the sleep after a TimedOut
    attempts,   \* calls of send_message_func for the user in the round
    outcome,    \* how the send to the user ended
    \* ---- symbols_loader.get_top_symbols ----
    loader,     \* _cache (age of its timestamp, data, the ranking it was cut from) and the last call
    \* ---- the helpers of create_signal_message on their own ----
    cls,        \* a spread and a volume, and what the helpers return for them
    \* ---- add_subscriber and remove_subscriber on their own ----
    dbcall      \* the last call: function, user, table before it, returned value

lvars == <<pc, tier, elapsed, pairs, idx, spot, fetched, raisedAt, scanEnd,
           evalIn, signal, route, db, sinceFast>>

svars == <<lvars, refresh>>

fvars == <<fpc, sem, since_last, remaining, attempt, requests, lastGap,
           lastExit, rateLimited, exits>>

nvars == <<subscribers, sendFunc, round, npc, nsem, cool, attempts, outcome>>

ovars == <<norm, nvars, loader, cls, dbcall>>

\* database.py:276-285: the user ids of the rows
subs == {subscribers[i] : i \in DOMAIN subscribers}

vars == <<svars, fvars, ovars>>

\* ------------------------------------------------------------------------
\* fetch_data_for_pair: evaluation of one pair (scanner.py:257-285)
\* ------------------------------------------------------------------------
\* variant: the sentinel 0 passes the validity check
InvalidPrices_Strict(spot_price, futures_price) == spot_price < 0 \/ futures_price < 0

\* scanner.py:264
InvalidPrices(spot_price, futures_price) == spot_price <= 0 \/ futures_price <= 0

\* scanner.py:267  abs((futures_price - spot_price) / spot_price) * 100
SpreadPercent(spot_price, futures_price) ==
    RatTimes(RatAbs([num |-> futures_price - spot_price, den |-> spot_price]), 100)

\* variant: equal prices are reported as derivative higher
BidAsk_GE(spot_price, futures_price) ==
    IF futures_price >= spot_price THEN "Buy Spot / Sell Futures"
                                   ELSE "Buy Futures / Sell Spot"

\* scanner.py:277-281
BidAsk(spot_price, futures_price) ==
    IF futures_price > spot_price THEN "Buy Spot / Sell Futures"
                                  ELSE "Buy Futures / Sell Spot"

\* scanner.py:295 (direction of the rendered message)
Direction(sig) ==
    IF sig.futures_price > sig.spot_price THEN "futures above" ELSE "futures below"

\* scanner.py:264-282: the body of the try block once both legs returned
Evaluate(pair, spot_price, volume, futures_price) ==
    IF InvalidPrices(spot_price, futures_price)
    THEN None
    ELSE [kind |-> "signal",
          dict |-> [spot_symbol    |-> pair[1],
                    futures_symbol |-> pair[2],
                    spot_price     |-> spot_price,
                    futures_price  |-> futures_price,
                    spread_percent |-> SpreadPercent(spot_price, futures_price),
                    volume_spot    |-> volume,
                    timestamp      |-> "gmtime",
                    bid_ask        |-> BidAsk(spot_price, futures_price)]]

\* variant: the exception leaves fetch_data_for_pair
FetchDataForPairExcept_Propagates == [kind |-> "raise"]

\* scanner.py:283-285: an Exception raised in the try block is logged and
\* None is returned
FetchDataForPairExcept == None

\* ------------------------------------------------------------------------
\* save_signal (database.py:183-216)
\* ------------------------------------------------------------------------
\* database.py:194-198: the keys read from a dict signal
SignalColumns == {"symbol", "spot_price", "futures_price", "spread_percent", "volume"}

\* returns the bool of save_signal and the rows of arbitrage_signals after it
SaveSignal(d, rows, available) ==
    IF ~(SignalColumns \subseteq DOMAIN d)
    THEN [ok |-> FALSE, rows |-> rows]               \* KeyError, database.py:211-213
    ELSE IF ~available
    THEN [ok |-> FALSE, rows |-> rows]               \* sqlite3.Error, database.py:214-216
    ELSE [ok |-> TRUE,
          rows |-> Append(rows, [symbol         |-> d.symbol,
                                 spot_price     |-> d.spot_price,
                                 futures_price  |-> d.futures_price,
                                 spread_percent |-> d.spread_percent,
                                 volume         |-> d.volume])]

\* ------------------------------------------------------------------------
\* process_and_notify (scanner.py:392-409) and main_loop (scanner.py:416-453)
\* ------------------------------------------------------------------------
\* variant: a spread equal to the threshold is not persisted
ShouldSave_Strict(spread) == ~RatGE(THRESHOLD_PERCENT, spread)

\* scanner.py:400
ShouldSave(spread) == RatGE(spread, THRESHOLD_PERCENT)

\* scanner.py:404
ShouldNotify(spread) == RatGE(spread, THRESHOLD_NOTIFY_PERCENT)

\* the positions of main_loop inside process_and_notify
ScanPcs == {"scan_spot", "scan_futures", "notifying"}

\* scanner.py:434
FastPairs(ps) == SubSeq(ps, 1, Min(Len(ps), FAST_TIER_SIZE))

\* variant: the slow tier starts at the last pair of the fast tier
SlowPairs_FromSplit(ps) == SubSeq(ps, FAST_TIER_SIZE, Len(ps))

\* scanner.py:435
SlowPairs(ps) == SubSeq(ps, FAST_TIER_SIZE + 1, Len(ps))

TierPairs(t, ps) == IF t = "fast" THEN FastPairs(ps) ELSE SlowPairs(ps)

\* variant: the fast sleep follows either tier
SleepOf_FastOnly(t) == "sleep_fast"

\* scanner.py:444, 453
SleepOf(t) == IF t = "fast" THEN "sleep_fast" ELSE "sleep_slow"

\* variant: the exception of a tier scan leaves main_loop
AfterTierException_Crash(t) == "crashed"

\* scanner.py:441-442, 450-451: main_loop catches an Exception of the tier
\* scan, logs it and goes on to the sleep of the tier
AfterTierException(t) == SleepOf(t)

\* variant: only an empty pair list is refreshed
NeedRefresh_EmptyOnly(el, ps) == ps = <<>>

\* scanner.py:427
NeedRefresh(el, ps) == el > PAIRS_UPDATE_INTERVAL \/ ps = <<>>

\* the clock moves by dt; the difference is kept exactly up to the interval
Advance(el, dt) == Min(el + dt, PAIRS_UPDATE_INTERVAL + 1)

\* the scan of a tier has ended in this step: the time slept since the fast
\* tier's scan starts from 0 when it was the fast tier's
ScanStep ==
    sinceFast' = IF pc' \notin ScanPcs /\ tier = "fast" THEN 0 ELSE sinceFast

\* a sleep of dt has ended
Slept(dt) ==
    sinceFast' = IF sinceFast < 0 THEN sinceFast
                 ELSE Min(sinceFast + dt, CHECK_INTERVAL_FAST + CHECK_INTERVAL_SLOW)

NoRoute == [kind |-> "none"]
NoRefresh == [kind |-> "none"]
NoEval == [kind |-> "none"]

\* ---- control-flow helpers: each sets pc, tier, idx, fetched, raisedAt, scanEnd
BeginScan(t) ==
    /\ pc' = "scan_spot"
    /\ tier' = t
    /\ idx' = 1
    /\ fetched' = {1}
    /\ raisedAt' = {}
    /\ scanEnd' = "running"

\* variant: a non-empty slow tier is scanned first
RunTiers_SlowFirst(ps) ==
    IF SlowPairs(ps) # <<>>
    THEN BeginScan("slow")
    ELSE IF FastPairs(ps) # <<>>
    THEN BeginScan("fast")
    ELSE /\ pc' = "top"
         /\ UNCHANGED <<tier, idx, fetched, raisedAt, scanEnd>>

\* scanner.py:437-453 after the pair list is known
RunTiers(ps) ==
    IF FastPairs(ps) # <<>>
    THEN BeginScan("fast")
    ELSE IF SlowPairs(ps) # <<>>
    THEN BeginScan("slow")
    ELSE /\ pc' = "top"
         /\ UNCHANGED <<tier, idx, fetched, raisedAt, scanEnd>>

\* scanner.py:394: the for loop takes the next pair, or the scan is complete
NextPair(raised) ==
    /\ raisedAt' = raisedAt \cup raised
    /\ tier' = tier
    /\ IF idx < Len(TierPairs(tier, pairs))
       THEN /\ pc' = "scan_spot"
            /\ idx' = idx + 1
            /\ fetched' = fetched \cup {idx + 1}
            /\ scanEnd' = scanEnd
       ELSE /\ pc' = SleepOf(tier)
            /\ scanEnd' = "complete"
            /\ UNCHANGED <<idx, fetched>>

\* variant: the Exception is handled per pair, the for loop goes on
TierException_SkipsPair(raised) == NextPair(raised)

\* an Exception leaves process_and_notify
TierException(raised) ==
    /\ raisedAt' = raisedAt \cup raised
    /\ pc' = AfterTierException(tier)
    /\ scanEnd' = "raised"
    /\ UNCHANGED <<tier, idx, fetched>>

\* variant: a failed save suppresses the fan-out
Process_NotifyNeedsSave(r, raised) ==
    /\ signal' = r
    /\ IF r.kind = "raise"
       THEN /\ TierException(raised)
            /\ route' = NoRoute
            /\ db' = db
       ELSE IF r.kind = "none"
       THEN /\ NextPair(raised)
            /\ route' = [kind |-> "skipped", idx |-> idx]
            /\ db' = db
       ELSE IF ShouldSave(r.dict.spread_percent)
       THEN \E available \in BOOLEAN :
              LET res == SaveSignal(r.dict, db, available)
                  notify == ShouldNotify(r.dict.spread_percent) /\ res.ok
              IN /\ db' = res.rows
                 /\ route' = [kind |-> "routed", idx |-> idx, saveCalled |-> TRUE,
                              available |-> available, saveOk |-> res.ok,
                              notifyCalled |-> notify]
                 /\ IF notify
                    THEN /\ pc' = "notifying"
                         /\ raisedAt' = raisedAt \cup raised
                         /\ UNCHANGED <<tier, idx, fetched, scanEnd>>
                    ELSE NextPair(raised)
       ELSE /\ NextPair(raised)
            /\ route' = [kind |-> "routed", idx |-> idx, saveCalled |-> FALSE,
                         available |-> FALSE, saveOk |-> FALSE,
                         notifyCalled |-> FALSE]
            /\ db' = db

\* scanner.py:395-409 for the result r of fetch_data_for_pair
Process(r, raised) ==
    /\ signal' = r
    /\ IF r.kind = "raise"
       THEN /\ TierException(raised)
            /\ route' = NoRoute
            /\ db' = db
       ELSE IF r.kind = "none"
       THEN /\ NextPair(raised)
            /\ route' = [kind |-> "skipped", idx |-> idx]
            /\ db' = db
       ELSE IF ShouldSave(r.dict.spread_percent)
       THEN \E available \in BOOLEAN :
              LET res == SaveSignal(r.dict, db, available)
                  notify == ShouldNotify(r.dict.spread_percent)
              IN /\ db' = res.rows
                 /\ route' = [kind |-> "routed", idx |-> idx, saveCalled |-> TRUE,
                              available |-> available, saveOk |-> res.ok,
                              notifyCalled |-> notify]
                 /\ IF notify
                    THEN /\ pc' = "notifying"
                         /\ raisedAt' = raisedAt \cup raised
                         /\ UNCHANGED <<tier, idx, fetched, scanEnd>>
                    ELSE NextPair(raised)
       ELSE /\ NextPair(raised)
            /\ route' = [kind |-> "routed", idx |-> idx, saveCalled |-> FALSE,
                         available |-> FALSE, saveOk |-> FALSE,
                         notifyCalled |-> FALSE]
            /\ db' = db

\* ---- actions of the scan loop ----
\* scanner.py:423-427: top of the while loop
LoopTop ==
    /\ pc = "top"
    /\ IF NeedRefresh(elapsed, pairs)
       THEN /\ pc' = "refreshing"
            /\ UNCHANGED <<tier, idx, fetched, raisedAt, scanEnd>>
       ELSE RunTiers(pairs)
    /\ spot' = None /\ evalIn' = NoEval /\ signal' = None /\ route' = NoRoute
    /\ UNCHANGED <<elapsed, pairs, db>>
    /\ refresh' = NoRefresh
    /\ UNCHANGED sinceFast
    /\ UNCHANGED <<fvars, ovars>>

\* variant: an empty result leaves the pair list as it was
RefreshReturns_KeepsOnEmpty ==
    /\ pc = "refreshing"
    /\ \E resp \in LoopListings :
         LET r == get_top_symbol_pairs(resp, LoopRanking, TOP_VOLUME_LIMIT)
             kept == IF r.kind = "ok" /\ r.pairs # <<>> THEN r.pairs ELSE pairs
         IN /\ refresh' = [kind |-> "call", listing |-> resp, ranking |-> LoopRanking,
                           limit |-> TOP_VOLUME_LIMIT, result |-> r]
            /\ IF r.kind = "raise"
               THEN /\ pc' = "crashed"
                    /\ UNCHANGED <<pairs, elapsed, tier, idx, fetched, raisedAt, scanEnd>>
               ELSE /\ pairs' = kept
                    /\ elapsed' = 0
                    /\ RunTiers(kept)
    /\ UNCHANGED <<spot, evalIn, signal, route, db>>
    /\ UNCHANGED sinceFast
    /\ UNCHANGED <<fvars, ovars>>

\* scanner.py:429-430: get_top_symbol_pairs returned
RefreshReturns ==
    /\ pc = "refreshing"
    /\ \E resp \in LoopListings :
         LET r == get_top_symbol_pairs(resp, LoopRanking, TOP_VOLUME_LIMIT)
         IN /\ refresh' = [kind |-> "call", listing |-> resp, ranking |-> LoopRanking,
                           limit |-> TOP_VOLUME_LIMIT, result |-> r]
            /\ IF r.kind = "raise"
               THEN /\ pc' = "crashed"
                    /\ UNCHANGED <<pairs, elapsed, tier, idx, fetched, raisedAt, scanEnd>>
               ELSE /\ pairs' = r.pairs
                    /\ elapsed' = 0
                    /\ RunTiers(r.pairs)
    /\ UNCHANGED <<spot, evalIn, signal, route, db>>
    /\ UNCHANGED sinceFast
    /\ UNCHANGED <<fvars, ovars>>

\* variant: a spot price that is not positive ends the pair at once
SpotReturns_SkipsOnSentinel ==
    /\ pc = "scan_spot"
    /\ \E o \in SpotOutcomes :
         IF o.kind = "raise"
         THEN /\ Process(FetchDataForPairExcept, {idx})
              /\ spot' = None
         ELSE IF o.price <= 0
         THEN /\ Process(None, {})
              /\ spot' = None
         ELSE /\ pc' = "scan_futures"
              /\ spot' = o
              /\ signal' = None /\ route' = NoRoute
              /\ UNCHANGED <<tier, idx, fetched, raisedAt, scanEnd, db>>
    /\ evalIn' = NoEval
    /\ UNCHANGED <<elapsed, pairs>>
    /\ refresh' = NoRefresh
    /\ ScanStep
    /\ UNCHANGED <<fvars, ovars>>

\* scanner.py:260: fetch_spot_price returned or the leg raised
SpotReturns ==
    /\ pc = "scan_spot"
    /\ \E o \in SpotOutcomes :
         IF o.kind = "raise"
         THEN /\ Process(FetchDataForPairExcept, {idx})
              /\ spot' = None
         ELSE /\ pc' = "scan_futures"
              /\ spot' = o
              /\ signal' = None /\ route' = NoRoute
              /\ UNCHANGED <<tier, idx, fetched, raisedAt, scanEnd, db>>
    /\ evalIn' = NoEval
    /\ UNCHANGED <<elapsed, pairs>>
    /\ refresh' = NoRefresh
    /\ ScanStep
    /\ UNCHANGED <<fvars, ovars>>

\* scanner.py:261-282 and 396-409: fetch_futures_price returned or raised,
\* the pair is evaluated and the result is routed
FuturesReturns ==
    /\ pc = "scan_futures"
    /\ \E o \in FutOutcomes :
         IF o.kind = "raise"
         THEN /\ Process(FetchDataForPairExcept, {idx})
              /\ evalIn' = NoEval
         ELSE /\ Process(Evaluate(TierPairs(tier, pairs)[idx], spot.price,
                                  spot.volume, o.price), {})
              /\ evalIn' = [kind |-> "eval", spot_price |-> spot.price,
                            futures_price |-> o.price]
    /\ spot' = None
    /\ UNCHANGED <<elapsed, pairs>>
    /\ refresh' = NoRefresh
    /\ ScanStep
    /\ UNCHANGED <<fvars, ovars>>

\* scanner.py:405: notify_subscribers returned or raised
NotifyReturns ==
    /\ pc = "notifying"
    /\ \E o \in NotifyOutcomes :
         IF o = "raise" THEN TierException({}) ELSE NextPair({})
    /\ spot' = None /\ evalIn' = NoEval /\ signal' = None /\ route' = NoRoute
    /\ UNCHANGED <<elapsed, pairs, db>>
    /\ refresh' = NoRefresh
    /\ ScanStep
    /\ UNCHANGED <<fvars, ovars>>

\* scanner.py:444: the sleep after the fast tier ended; the slow tier follows
SleepFastDone ==
    /\ pc = "sleep_fast"
    /\ elapsed' = Advance(elapsed, CHECK_INTERVAL_FAST)
    /\ IF SlowPairs(pairs) # <<>>
       THEN BeginScan("slow")
       ELSE /\ pc' = "top"
            /\ UNCHANGED <<tier, idx, fetched, raisedAt, scanEnd>>
    /\ spot' = None /\ evalIn' = NoEval /\ signal' = None /\ route' = NoRoute
    /\ UNCHANGED <<pairs, db>>
    /\ refresh' = NoRefresh
    /\ Slept(CHECK_INTERVAL_FAST)
    /\ UNCHANGED <<fvars, ovars>>

\* variant: the pair list is emptied at the end of a cycle
SleepSlowDone_ClearsPairs ==
    /\ pc = "sleep_slow"
    /\ elapsed' = Advance(elapsed, CHECK_INTERVAL_SLOW)
    /\ pc' = "top"
    /\ pairs' = <<>>
    /\ spot' = None /\ evalIn' = NoEval /\ signal' = None /\ route' = NoRoute
    /\ UNCHANGED <<tier, idx, fetched, raisedAt, scanEnd, db>>
    /\ refresh' = NoRefresh
    /\ Slept(CHECK_INTERVAL_SLOW)
    /\ UNCHANGED <<fvars, ovars>>

\* scanner.py:453: the sleep after the slow tier ended
SleepSlowDone ==
    /\ pc = "sleep_slow"
    /\ elapsed' = Advance(elapsed, CHECK_INTERVAL_SLOW)
    /\ pc' = "top"
    /\ spot' = None /\ evalIn' = NoEval /\ signal' = None /\ route' = NoRoute
    /\ UNCHANGED <<tier, idx, fetched, raisedAt, scanEnd, pairs, db>>
    /\ refresh' = NoRefresh
    /\ Slept(CHECK_INTERVAL_SLOW)
    /\ UNCHANGED <<fvars, ovars>>

\* variant: a cancellation is delivered only in the tier sleeps
SuspensionPoints_SleepsOnly == {"sleep_fast", "sleep_slow"}

\* the awaits of main_loop: the refresh, the two fetches of a pair (limiter
\* wait, request, retry backoff), the fan-out and the tier sleeps
SuspensionPoints == {"refreshing", "scan_spot", "scan_futures", "notifying",
                     "sleep_fast", "sleep_slow"}

\* main.py:40-42: task.cancel(); CancelledError is raised at the await the
\* task is suspended in and is not an Exception, so no handler catches it
Cancel ==
    /\ pc \in SuspensionPoints
    /\ pc' = "cancelled"
    /\ UNCHANGED <<tier, elapsed, pairs, idx, spot, fetched, raisedAt, scanEnd,
                   evalIn, signal, route, db, sinceFast, refresh>>
    /\ UNCHANGED <<fvars, ovars>>

\* ------------------------------------------------------------------------
\* Concurrent fetches through the semaphore and rate_limit()
\* (scanner.py:50-67, 211-254)
\* ------------------------------------------------------------------------
Tasks == 1..NumTasks

\* odd calls are fetch_spot_price, even calls are fetch_futures_price
KindOf(t) == IF t % 2 = 1 THEN "spot" ELSE "futures"

\* JSON bodies of the spot ticker: each field is missing, unparsable or a number
SpotPayloads == [kind : {"payload"}, lastPrice : {Absent, Garbage, Num(7)},
                 price : {Absent, Num(0), Num(5)},
                 quoteVolume : {Absent, Garbage, Num(9)}]

\* JSON bodies of the futures ticker: a nested price, the rate-limit code
\* 510, "data": null, or anything else
FutPayloads == [kind : {"nested"}, lastPrice : {Garbage, Num(0), Num(7)}]
                   \cup {[kind |-> "code510"], [kind |-> "nulldata"], [kind |-> "other"]}

TransportError == [kind |-> "transport_error"]

Outcomes(k) == IF k = "spot" THEN SpotPayloads \cup {TransportError}
                             ELSE FutPayloads \cup {TransportError}

\* return values of the two fetches
SpotValue(p, v) == [kind |-> "value", price |-> p, volume |-> v]
FuturesValue(p) == [kind |-> "value", price |-> p]

\* scanner.py:217-226: one attempt of fetch_spot_price
SpotAttempt(o) ==
    IF o.kind = "transport_error"
    THEN [act |-> "backoff"]                          \* except Exception, 224-226
    ELSE LET p == Or(Or(o.lastPrice, o.price), Num(0))    \* scanner.py:221
             v == Or(o.quoteVolume, Num(0))               \* scanner.py:222
         IN IF p = Garbage \/ v = Garbage
            THEN [act |-> "backoff"]                  \* float() raises ValueError
            ELSE [act |-> "return", value |-> SpotValue(p.v, v.v)]

\* scanner.py:237-251: one attempt of fetch_futures_price
FuturesAttempt_RateLimitFatal(o) ==
    IF o.kind = "transport_error"
    THEN [act |-> "backoff"]
    ELSE IF o.kind = "nested"
    THEN IF o.lastPrice = Garbage
         THEN [act |-> "backoff"]
         ELSE [act |-> "return", value |-> FuturesValue(o.lastPrice.v)]
    ELSE IF o.kind = "nulldata"
    THEN [act |-> "backoff"]
    ELSE IF o.kind = "code510"
    THEN [act |-> "raise"]
    ELSE [act |-> "next"]

FuturesAttempt(o) ==
    IF o.kind = "transport_error"
    THEN [act |-> "backoff"]                          \* except Exception, 249-251
    ELSE IF o.kind = "nested"
    THEN IF o.lastPrice = Garbage
         THEN [act |-> "backoff"]                     \* float() raises ValueError
         ELSE [act |-> "return", value |-> FuturesValue(o.lastPrice.v)]
    ELSE IF o.kind = "nulldata"
    THEN [act |-> "backoff"]                          \* "lastPrice" in None raises TypeError
    ELSE IF o.kind = "code510"
    THEN [act |-> "backoff"]                          \* scanner.py:244-246
    ELSE [act |-> "next"]                             \* scanner.py:247-248

Attempt(k, o) == IF k = "spot" THEN SpotAttempt(o) ELSE FuturesAttempt(o)

\* scanner.py:227 and 254
Sentinel(k) == IF k = "spot" THEN SpotValue(0, 0) ELSE FuturesValue(0)

\* variant: one attempt too many
MoreAttempts_OffByOne(a) == a < RETRIES

\* scanner.py:216, 236: for attempt in range(retries)
MoreAttempts(a) == a + 1 < RETRIES

\* scanner.py:226, 246, 251: 1.5 * (attempt + 1)
Backoff(a) == BACKOFF_UNIT * (a + 1)

\* variant: the semaphore never blocks
CanAcquire_Always(v) == TRUE

\* scanner.py:213, 232: async with semaphore blocks while the value is 0
CanAcquire(v) == v > 0

\* variant: the slot is not released when the attempts are exhausted
SemAfterExit_LeakOnSentinel(v, how) == IF how = "sentinel" THEN v ELSE v + 1

\* scanner.py:213, 232: leaving the async with block releases the slot,
\* however the block is left
SemAfterExit(v, how) == v + 1

\* scanner.py:63-66: how long rate_limit() sleeps when the last request
\* was made el ago
RateLimitSleep(el) == IF el < MIN_INTERVAL THEN MIN_INTERVAL - el ELSE 0

Holding == {"rl_sleep", "request", "backoff"}

NoExit == [how |-> "none"]

SetCall(t, p, w, a, n) ==
    /\ fpc' = [fpc EXCEPT ![t] = p]
    /\ remaining' = [remaining EXCEPT ![t] = w]
    /\ attempt' = [attempt EXCEPT ![t] = a]
    /\ requests' = [requests EXCEPT ![t] = n]

\* variant: a grant does not move the last-grant time
Granted_NoStamp(t) ==
    /\ lastGap' = since_last
    /\ UNCHANGED since_last
    /\ SetCall(t, "request", 0, 0, 1)

\* scanner.py:67 and 215-218: rate_limit() returns and the first request is issued
Granted(t) ==
    /\ lastGap' = since_last
    /\ since_last' = 0
    /\ SetCall(t, "request", 0, 0, 1)

\* scanner.py:214, 60-66: the slot is held, rate_limit() is entered
AfterAcquire(t) ==
    LET sl == RateLimitSleep(since_last)
    IN IF sl > 0
       THEN /\ SetCall(t, "rl_sleep", sl, 0, 0)
            /\ UNCHANGED <<since_last, lastGap>>
       ELSE Granted(t)

\* the call ends: return, or CancelledError leaves the async with block
ExitCall(t, how, val) ==
    /\ SetCall(t, "done", 0, 0, 0)
    /\ lastExit' = [how |-> how, task |-> t, value |-> val, requests |-> requests[t]]
    /\ exits' = exits \cup {how}
    /\ sem' = SemAfterExit(sem, how)
    /\ UNCHANGED <<since_last, lastGap>>

\* the retry loop goes to its next iteration, or is exhausted
NextAttempt(t) ==
    IF MoreAttempts(attempt[t])
    THEN /\ SetCall(t, "request", 0, attempt[t] + 1, requests[t] + 1)
         /\ UNCHANGED <<sem, since_last, lastGap, lastExit, exits>>
    ELSE ExitCall(t, "sentinel", Sentinel(KindOf(t)))

\* ---- actions of the fetch calls ----
\* scanner.py:213, 232: a fetch is called
StartFetch(t) ==
    /\ fpc[t] = "idle"
    /\ IF CanAcquire(sem)
       THEN /\ sem' = sem - 1
            /\ AfterAcquire(t)
       ELSE /\ SetCall(t, "acquire", 0, 0, 0)
            /\ UNCHANGED <<sem, since_last, lastGap>>
    /\ UNCHANGED <<lastExit, exits>>
    /\ rateLimited' = FALSE
    /\ UNCHANGED <<svars, ovars>>

\* a call waiting for the semaphore gets a slot
AcquireSlot(t) ==
    /\ fpc[t] = "acquire"
    /\ CanAcquire(sem)
    /\ sem' = sem - 1
    /\ AfterAcquire(t)
    /\ UNCHANGED <<lastExit, exits>>
    /\ rateLimited' = FALSE
    /\ UNCHANGED <<svars, ovars>>

\* scanner.py:66-67: the sleep of rate_limit() ends
RateLimitWake(t) ==
    /\ fpc[t] = "rl_sleep"
    /\ remaining[t] = 0
    /\ Granted(t)
    /\ UNCHANGED <<sem, lastExit, exits>>
    /\ rateLimited' = FALSE
    /\ UNCHANGED <<svars, ovars>>

\* scanner.py:218-226, 238-251: the ticker request of the attempt ends
RequestReturns(t) ==
    /\ fpc[t] = "request"
    /\ \E x \in {[r |-> Attempt(KindOf(t), o), limited |-> o.kind = "code510"] :
                  o \in Outcomes(KindOf(t))} :
         LET r == x.r
         IN /\ rateLimited' = x.limited
            /\ IF r.act = "return"
               THEN ExitCall(t, "return", r.value)
               ELSE IF r.act = "raise"
               THEN ExitCall(t, "raised", None)
               ELSE IF r.act = "backoff"
               THEN /\ SetCall(t, "backoff", Backoff(attempt[t]), attempt[t],
                               requests[t])
                    /\ UNCHANGED <<sem, since_last, lastGap, lastExit, exits>>
               ELSE NextAttempt(t)
    /\ UNCHANGED <<svars, ovars>>

\* scanner.py:226, 246, 251: the backoff sleep ends
BackoffWake(t) ==
    /\ fpc[t] = "backoff"
    /\ remaining[t] = 0
    /\ NextAttempt(t)
    /\ rateLimited' = FALSE
    /\ UNCHANGED <<svars, ovars>>

\* the task running the call is cancelled while it is suspended
CancelFetch(t) ==
    /\ fpc[t] \in Holding \cup {"acquire"}
    /\ IF fpc[t] = "acquire"
       THEN /\ SetCall(t, "done", 0, 0, 0)
            /\ lastExit' = [how |-> "cancelled_waiting", task |-> t, value |-> None,
                            requests |-> requests[t]]
            /\ exits' = exits \cup {"cancelled_waiting"}
            /\ UNCHANGED <<sem, since_last, lastGap>>
       ELSE ExitCall(t, "cancelled", None)
    /\ rateLimited' = FALSE
    /\ UNCHANGED <<svars, ovars>>

\* time passes by one tick while some call is in progress
Tick ==
    /\ \E t \in Tasks : fpc[t] \in Holding \cup {"acquire"}
    /\ since_last' = Min(since_last + 1, MIN_INTERVAL)
    /\ remaining' = [t \in Tasks |-> IF remaining[t] > 0 THEN remaining[t] - 1 ELSE 0]
    /\ UNCHANGED <<fpc, sem, attempt, requests, lastGap, lastExit, exits>>
    /\ rateLimited' = FALSE
    /\ UNCHANGED <<svars, ovars>>

\* scanner.py:51-53; _last_request_time = 0 lies further back than _min_interval
FInit ==
    /\ fpc = [t \in Tasks |-> "idle"]
    /\ sem = API_MAX_CONCURRENT_REQUESTS
    /\ since_last = MIN_INTERVAL
    /\ remaining = [t \in Tasks |-> 0]
    /\ attempt = [t \in Tasks |-> 0]
    /\ requests = [t \in Tasks |-> 0]
    /\ lastGap = MIN_INTERVAL
    /\ lastExit = NoExit
    /\ rateLimited = FALSE
    /\ exits = {}

NextFetch ==
    \/ \E t \in Tasks : StartFetch(t)
    \/ \E t \in Tasks : AcquireSlot(t)
    \/ \E t \in Tasks : RateLimitWake(t)
    \/ \E t \in Tasks : RequestReturns(t)
    \/ \E t \in Tasks : BackoffWake(t)
    \/ \E t \in Tasks : CancelFetch(t)
    \/ Tick

\* ------------------------------------------------------------------------
\* notify_subscribers (scanner.py:338-385) and the subscribers table
\* (database.py:246-285)
\* ------------------------------------------------------------------------
Users == 1..NumUsers

\* database.py:99-101: user_id INTEGER PRIMARY KEY; the rows are kept in the
\* order of the key, which no two rows share
Tables == {t \in SeqsUpTo(Users, NumUsers) : \A i \in 1..(Len(t) - 1) : t[i] < t[i + 1]}

\* how a call of send_message_func ends: normally, with telegram's TimedOut,
\* with any other Exception
SendOutcomes == {"ok", "timed_out", "error"}

\* scanner.py:368-374: the keyword arguments of the call of
\* send_message_func; no positional argument is passed
SendKeywords == {"chat_id", "text", "parse_mode", "disable_web_page_preview",
                 "reply_markup"}

\* main.py:31: lambda *args: send_message_wrapper(application.bot, *args)
\* takes any positional arguments and no keyword
MainLambda == [kind |-> "func", names |-> {}, varargs |-> TRUE, varkw |-> FALSE]

\* what main_loop can be given: nothing (scanner.py:416 default, 473), the
\* lambda of main.start_monitoring, a function with the parameters of the call
SendFuncs ==
    {[kind |-> "none", names |-> {}, varargs |-> FALSE, varkw |-> FALSE],
     MainLambda,
     [kind |-> "func", names |-> SendKeywords, varargs |-> FALSE, varkw |-> FALSE]}

\* scanner.py:367: if send_message_func
hasFunc == sendFunc.kind = "func"

\* Python's binding of a call with the keywords kw and no positional
\* argument to the parameters of f; a call that does not bind raises
\* TypeError before the body of f runs
CallBinds(f, kw) == (kw \subseteq f.names \/ f.varkw) /\ f.names \subseteq kw

\* variant: the list read by the first call is kept for the later ones
ReadSubscribers_Cached(failed) ==
    IF round.phase = "idle" THEN (IF failed THEN {} ELSE subs) ELSE round.recipients

\* database.py:276-285: the rows of the table, [] on sqlite3.Error
ReadSubscribers(failed) == IF failed THEN {} ELSE subs

\* variant: an empty list is an error
PhaseAfterRead_EmptyRaises(r) == IF r = {} THEN "raised" ELSE "dispatching"

\* scanner.py:341-343: nothing to do without subscribers
PhaseAfterRead(r) == IF r = {} THEN "returned" ELSE "dispatching"

\* variant: sem_notify never blocks
SlotFree_Always(v) == TRUE

\* scanner.py:365: async with sem_notify blocks while the value is 0
SlotFree(v) == v > 0

\* variant: the slot is given back as soon as the send timed out
AfterSend_NoCooldown(o) == [pc |-> "done", cool |-> 0, release |-> 1]

\* scanner.py:379-383: TimedOut sleeps inside the async with block, any other
\* end of the send leaves the block at once
AfterSend(o) ==
    IF o = "timed_out"
    THEN [pc |-> "cooldown", cool |-> TIMEOUT_COOLDOWN, release |-> 0]
    ELSE [pc |-> "done", cool |-> 0, release |-> 1]

\* variant: the round is over when the first send_message is
GatherDone_FirstCompleted == \E u \in round.recipients : npc[u] = "done"

\* scanner.py:385: asyncio.gather returns when every send_message has ended
GatherDone == \A u \in round.recipients : npc[u] = "done"

NoRound == [phase |-> "idle", recipients |-> {}, prev |-> {}, readFailed |-> FALSE]

NotifyIdle ==
    /\ round = NoRound
    /\ npc = [u \in Users |-> "none"]
    /\ nsem = NOTIFY_CONCURRENCY
    /\ cool = [u \in Users |-> 0]
    /\ attempts = [u \in Users |-> 0]
    /\ outcome = [u \in Users |-> "none"]

\* ---- actions ----
\* scanner.py:338-363: notify_subscribers is called, reads the subscribers and
\* starts one send_message per subscriber
StartRound ==
    /\ round.phase \in {"idle", "returned"}
    /\ \E failed \in BOOLEAN :
         LET r == ReadSubscribers(failed)
         IN /\ round' = [phase |-> PhaseAfterRead(r), recipients |-> r,
                         prev |-> round.recipients, readFailed |-> failed]
            /\ npc' = [u \in Users |-> IF u \in r THEN "waiting" ELSE "none"]
    /\ nsem' = NOTIFY_CONCURRENCY
    /\ cool' = [u \in Users |-> 0]
    /\ attempts' = [u \in Users |-> 0]
    /\ outcome' = [u \in Users |-> "none"]
    /\ UNCHANGED <<subscribers, sendFunc>>
    /\ UNCHANGED <<svars, fvars, norm, loader, cls, dbcall>>

\* scanner.py:365-383: send_message(u) enters sem_notify and calls
\* send_message_func; without one it logs and leaves the block at once, and
\* so it does when the call raises TypeError (except Exception, 382-383)
NotifyAcquire(u) ==
    /\ round.phase = "dispatching"
    /\ npc[u] = "waiting"
    /\ SlotFree(nsem)
    /\ IF hasFunc /\ CallBinds(sendFunc, SendKeywords)
       THEN /\ npc' = [npc EXCEPT ![u] = "sending"]
            /\ nsem' = nsem - 1
            /\ attempts' = [attempts EXCEPT ![u] = @ + 1]
            /\ UNCHANGED outcome
       ELSE IF hasFunc
       THEN /\ npc' = [npc EXCEPT ![u] = "done"]
            /\ attempts' = [attempts EXCEPT ![u] = @ + 1]
            /\ outcome' = [outcome EXCEPT ![u] = "call_error"]
            /\ UNCHANGED nsem
       ELSE /\ npc' = [npc EXCEPT ![u] = "done"]
            /\ UNCHANGED <<nsem, attempts, outcome>>
    /\ UNCHANGED <<subscribers, sendFunc, round, cool>>
    /\ UNCHANGED <<svars, fvars, norm, loader, cls, dbcall>>

\* scanner.py:368-383: the call of send_message_func ends
SendReturns(u) ==
    /\ round.phase = "dispatching"
    /\ npc[u] = "sending"
    /\ \E o \in SendOutcomes :
         LET a == AfterSend(o)
         IN /\ npc' = [npc EXCEPT ![u] = a.pc]
            /\ cool' = [cool EXCEPT ![u] = a.cool]
            /\ nsem' = nsem + a.release
            /\ outcome' = [outcome EXCEPT ![u] = o]
    /\ UNCHANGED <<subscribers, sendFunc, round, attempts>>
    /\ UNCHANGED <<svars, fvars, norm, loader, cls, dbcall>>

\* scanner.py:381: the sleep after a TimedOut ends and the block is left
CooldownEnds(u) ==
    /\ round.phase = "dispatching"
    /\ npc[u] = "cooldown"
    /\ cool[u] = 0
    /\ npc' = [npc EXCEPT ![u] = "done"]
    /\ nsem' = nsem + 1
    /\ UNCHANGED <<subscribers, sendFunc, round, cool, attempts, outcome>>
    /\ UNCHANGED <<svars, fvars, norm, loader, cls, dbcall>>

\* time passes by one tick while some send_message sleeps
NotifyTick ==
    /\ \E u \in Users : npc[u] = "cooldown" /\ cool[u] > 0
    /\ cool' = [u \in Users |-> IF cool[u] > 0 THEN cool[u] - 1 ELSE 0]
    /\ UNCHANGED <<subscribers, sendFunc, round, npc, nsem, attempts, outcome>>
    /\ UNCHANGED <<svars, fvars, norm, loader, cls, dbcall>>

\* scanner.py:385: gather returns and with it notify_subscribers
RoundReturns ==
    /\ round.phase = "dispatching"
    /\ GatherDone
    /\ round' = [round EXCEPT !.phase = "returned"]
    /\ UNCHANGED <<subscribers, sendFunc, npc, nsem, cool, attempts, outcome>>
    /\ UNCHANGED <<svars, fvars, norm, loader, cls, dbcall>>

\* variant: a table without the primary key takes the row once more
add_subscriber_NoKey(table, user_id, error) ==
    IF error THEN [table |-> table, ret |-> FALSE]
    ELSE LET t == SelectSeq(table, LAMBDA x : x <= user_id) \o <<user_id>>
                  \o SelectSeq(table, LAMBDA x : x > user_id)
         IN [table |-> t, ret |-> Len(t) - Len(table) > 0]

\* database.py:246-258: INSERT OR IGNORE leaves the table as it is when a
\* row with the key exists; the connection is new (database.py:44), so its
\* total_changes counts the rows this call wrote; sqlite3.Error rolls the
\* transaction back and gives False
add_subscriber(table, user_id, error) ==
    IF error THEN [table |-> table, ret |-> FALSE]
    ELSE LET t == IF \E i \in DOMAIN table : table[i] = user_id
                  THEN table
                  ELSE SelectSeq(table, LAMBDA x : x < user_id) \o <<user_id>>
                       \o SelectSeq(table, LAMBDA x : x > user_id)
         IN [table |-> t, ret |-> Len(t) - Len(table) > 0]

\* database.py:261-273: DELETE of the rows with the key
remove_subscriber(table, user_id, error) ==
    IF error THEN [table |-> table, ret |-> FALSE]
    ELSE LET t == SelectSeq(table, LAMBDA x : x # user_id)
         IN [table |-> t, ret |-> Len(table) - Len(t) > 0]

\* handlers.py:94: add_subscriber is called; its result only chooses the reply
Subscribe(u) ==
    /\ \E r \in {add_subscriber(subscribers, u, error) : error \in BOOLEAN} : subscribers' = r.table
    /\ UNCHANGED <<sendFunc, round, npc, nsem, cool, attempts, outcome>>
    /\ UNCHANGED <<svars, fvars, norm, loader, cls, dbcall>>

\* handlers.py:103: remove_subscriber is called
Unsubscribe(u) ==
    /\ \E r \in {remove_subscriber(subscribers, u, error) : error \in BOOLEAN} : subscribers' = r.table
    /\ UNCHANGED <<sendFunc, round, npc, nsem, cool, attempts, outcome>>
    /\ UNCHANGED <<svars, fvars, norm, loader, cls, dbcall>>

NoCall == [op |-> "none", user |-> 0, error |-> FALSE, before |-> <<>>, ret |-> FALSE]

\* a call of add_subscriber with its returned value
AddSubscriber(u) ==
    /\ \E error \in BOOLEAN :
         LET r == add_subscriber(subscribers, u, error)
         IN /\ subscribers' = r.table
            /\ dbcall' = [op |-> "add", user |-> u, error |-> error,
                          before |-> subscribers, ret |-> r.ret]
    /\ UNCHANGED <<sendFunc, round, npc, nsem, cool, attempts, outcome>>
    /\ UNCHANGED <<svars, fvars, norm, loader, cls>>

\* a call of remove_subscriber with its returned value
RemoveSubscriber(u) ==
    /\ \E error \in BOOLEAN :
         LET r == remove_subscriber(subscribers, u, error)
         IN /\ subscribers' = r.table
            /\ dbcall' = [op |-> "remove", user |-> u, error |-> error,
                          before |-> subscribers, ret |-> r.ret]
    /\ UNCHANGED <<sendFunc, round, npc, nsem, cool, attempts, outcome>>
    /\ UNCHANGED <<svars, fvars, norm, loader, cls>>

NextNotify ==
    \/ StartRound
    \/ \E u \in Users : NotifyAcquire(u)
    \/ \E u \in Users : SendReturns(u)
    \/ \E u \in Users : CooldownEnds(u)
    \/ NotifyTick
    \/ RoundReturns
    \/ \E u \in Users : Subscribe(u)
    \/ \E u \in Users : Unsubscribe(u)

\* ------------------------------------------------------------------------
\* Helpers of create_signal_message (scanner.py:85-127); a spread is an
\* exact rational [num, den] of percent, never negative (scanner.py:267)
\* ------------------------------------------------------------------------
\* scanner.py:85-94; the labels stand for the four message texts
get_signal_strength(spread) ==
    IF spread.num >= 8 * spread.den THEN "very strong"
    ELSE IF spread.num >= 5 * spread.den THEN "strong"
    ELSE IF spread.num >= 3 * spread.den THEN "medium"
    ELSE "moderate"

\* scanner.py:120-127
get_liquidity_status(volume) ==
    IF volume > 5000000 THEN "high"
    ELSE IF volume > 1000000 THEN "medium"
    ELSE "low"

\* variant: the leverage is not capped
get_risk_management_NoCap(spread, volume) ==
    LET x == spread.num * RISK_MULTIPLIER
    IN [leverage |-> IF x >= 0 THEN x \div spread.den ELSE -((-x) \div spread.den),
        stop_loss |-> IF spread.num > 2 * spread.den
                      THEN [num |-> spread.num, den |-> 2 * spread.den]
                      ELSE [num |-> 1, den |-> 1]]

\* scanner.py:109-117: the numbers put into the text; int() truncates
\* towards zero, max(1, x) is x only when x > 1
get_risk_management(spread, volume) ==
    LET x == spread.num * RISK_MULTIPLIER
        int == IF x >= 0 THEN x \div spread.den ELSE -((-x) \div spread.den)
    IN [leverage |-> Min(int, MAX_LEVERAGE),
        stop_loss |-> IF spread.num > 2 * spread.den
                      THEN [num |-> spread.num, den |-> 2 * spread.den]
                      ELSE [num |-> 1, den |-> 1]]

NoClass == [kind |-> "none", spread |-> [num |-> 0, den |-> 1], volume |-> 0,
            strength |-> "", liquidity |-> "",
            risk |-> [leverage |-> 0, stop_loss |-> [num |-> 1, den |-> 1]]]

\* scanner.py:298-301: the helpers are applied to the signal's spread and volume
Classify ==
    /\ cls.kind = "input"
    /\ cls' = [cls EXCEPT !.kind = "done",
                          !.strength = get_signal_strength(cls.spread),
                          !.liquidity = get_liquidity_status(cls.volume),
                          !.risk = get_risk_management(cls.spread, cls.volume)]
    /\ UNCHANGED <<svars, fvars, norm, nvars, loader, dbcall>>

\* ------------------------------------------------------------------------
\* get_top_symbols with its cache (symbols_loader.py:4-27)
\* ------------------------------------------------------------------------
\* symbols_loader.py:4: timestamp 0 lies further back than CACHE_TTL
NoCache == [age |-> CACHE_TTL, data |-> <<>>, source |-> <<>>,
            call |-> [how |-> "none", limit |-> 0, result |-> <<>>]]

\* symbols_loader.py:10: now - _cache["timestamp"] < CACHE_TTL and _cache["data"]
CacheFresh(c) == c.age < CACHE_TTL /\ c.data # <<>>

\* symbols_loader.py:7-27: one call; the request fails, or gives the
\* tickers, whose USDT symbols sorted by volume are `ranking`
GetTopSymbols ==
    /\ \E limit \in Limits :
         IF CacheFresh(loader)
         THEN loader' = [loader EXCEPT !.call =
                            [how |-> "cache", limit |-> limit,
                             result |-> SubSeq(loader.data, 1,
                                               Min(Len(loader.data), limit))]]
         ELSE \/ loader' = [loader EXCEPT !.call =
                               [how |-> "failed", limit |-> limit, result |-> <<>>]]
              \/ \E ranking \in Rankings :
                    LET top_symbols == get_top_symbols(ranking, limit)
                    IN loader' = [age |-> 0, data |-> top_symbols, source |-> ranking,
                                  call |-> [how |-> "fetched", limit |-> limit,
                                            result |-> top_symbols]]
    /\ UNCHANGED <<svars, fvars, norm, nvars, cls, dbcall>>

\* time.time() moves on
CacheTick ==
    /\ loader.age < CACHE_TTL
    /\ loader' = [loader EXCEPT !.age = Min(@ + ClockStep, CACHE_TTL)]
    /\ UNCHANGED <<svars, fvars, norm, nvars, cls, dbcall>>

NextSymbols ==
    \/ GetTopSymbols
    \/ CacheTick

OInit ==
    /\ norm = [kind |-> "none", s |-> <<>>, outs |-> <<>>]
    /\ subscribers = <<>>
    /\ sendFunc = MainLambda
    /\ NotifyIdle
    /\ loader = NoCache
    /\ cls = NoClass
    /\ dbcall = NoCall

\* scanner.py:419-420
LoopInit ==
    /\ pc = "top"
    /\ tier = "fast"
    /\ elapsed = PAIRS_UPDATE_INTERVAL + 1
    /\ pairs = <<>>
    /\ idx = 0
    /\ spot = None
    /\ fetched = {}
    /\ raisedAt = {}
    /\ scanEnd = "none"
    /\ evalIn = NoEval
    /\ signal = None
    /\ route = NoRoute
    /\ db = <<>>
    /\ sinceFast = -1

SInit ==
    /\ LoopInit
    /\ refresh = NoRefresh

\* get_top_symbol_pairs on its own: the inputs are drawn at the start, one
\* step applies the function
PairsInit ==
    /\ LoopInit
    /\ FInit
    /\ OInit
    /\ refresh \in PairInputs

BuildPairs ==
    /\ refresh.kind = "input"
    /\ refresh' = [refresh EXCEPT !.kind = "call",
                      !.result = get_top_symbol_pairs(refresh.listing, refresh.ranking,
                                                      refresh.limit)]
    /\ UNCHANGED <<lvars, fvars, ovars>>

Next ==
    \/ LoopTop
    \/ RefreshReturns
    \/ SpotReturns
    \/ FuturesReturns
    \/ NotifyReturns
    \/ SleepFastDone
    \/ SleepSlowDone
    \/ Cancel

Init == SInit /\ FInit /\ OInit

\* normalize_symbol(s, 'spot') on its own: the symbol is drawn at the start,
\* a step normalizes the latest result
NormInit ==
    /\ SInit
    /\ FInit
    /\ norm \in {[kind |-> "input", s |-> x, outs |-> <<>>] :
                    x \in SeqsUpTo(Alphabet, MaxSymLen)}
    /\ subscribers = <<>>
    /\ sendFunc = MainLambda
    /\ NotifyIdle
    /\ loader = NoCache
    /\ cls = NoClass
    /\ dbcall = NoCall

NormalizeSpot ==
    /\ norm.kind = "input"
    /\ Len(norm.outs) < 2
    /\ norm' = [norm EXCEPT !.outs =
                   Append(@, normalize_symbol(IF @ = <<>> THEN norm.s ELSE @[Len(@)],
                                              "spot"))]
    /\ UNCHANGED <<svars, fvars, nvars, loader, cls, dbcall>>

SpecNormalize == NormInit /\ [][NormalizeSpot]_vars

\* the table holds any set of users when the scanner starts; the send
\* function is any of SendFuncs
NotifyInit ==
    /\ SInit
    /\ FInit
    /\ norm = [kind |-> "none", s |-> <<>>, outs |-> <<>>]
    /\ subscribers \in Tables
    /\ sendFunc \in SendFuncs
    /\ NotifyIdle
    /\ loader = NoCache
    /\ cls = NoClass
    /\ dbcall = NoCall

SpecNotify == NotifyInit /\ [][NextNotify]_vars

SpecSymbols == Init /\ [][NextSymbols]_vars

\* the helpers on their own: a spread and a volume are drawn at the start
ClassifyInit ==
    /\ SInit
    /\ FInit
    /\ norm = [kind |-> "none", s |-> <<>>, outs |-> <<>>]
    /\ subscribers = <<>>
    /\ sendFunc = MainLambda
    /\ NotifyIdle
    /\ loader = NoCache
    /\ cls \in {[NoClass EXCEPT !.kind = "input",
                                 !.spread = [num |-> n, den |-> SpreadDen],
                                 !.volume = v] :
                    n \in 0..MaxSpreadNum,
                    v \in {0, 1000000, 1000001, 5000000, 5000001}}
    /\ dbcall = NoCall

SpecClassify == ClassifyInit /\ [][Classify]_vars

\* the registry on its own: init_db keeps the rows of an earlier run
RegistryInit ==
    /\ SInit
    /\ FInit
    /\ norm = [kind |-> "none", s |-> <<>>, outs |-> <<>>]
    /\ subscribers \in Tables
    /\ sendFunc = MainLambda
    /\ NotifyIdle
    /\ loader = NoCache
    /\ cls = NoClass
    /\ dbcall = NoCall

SpecRegistry ==
    RegistryInit /\ [][\E u \in Users : AddSubscriber(u) \/ RemoveSubscriber(u)]_vars

Spec == Init /\ [][Next]_vars

SpecFetch == Init /\ [][NextFetch]_vars

SpecPairs == PairsInit /\ [][BuildPairs]_vars

LoopStep ==
    \/ LoopTop
    \/ RefreshReturns
    \/ SpotReturns
    \/ FuturesReturns
    \/ NotifyReturns
    \/ SleepFastDone
    \/ SleepSlowDone

\* every await of the loop ends: requests carry timeouts and bounded
\* retries, sleeps are finite
SpecLive == Init /\ [][Next]_vars /\ WF_vars(LoopStep)

\* ========================================================================
\* Properties
\* ========================================================================
TierLen == Len(TierPairs(tier, pairs))

\* C1: an exception raised while fetching or evaluating a pair is caught and
\* the pair is skipped (nothing is persisted or fanned out for it); the scan
\* goes on with the next pair of the tier, so a scan that runs to its end
\* has fetched every pair of the tier.
C1_RaiseStep ==
    (raisedAt' # raisedAt /\ raisedAt \subseteq raisedAt')
        => /\ signal'.kind = "none"
           /\ route'.kind = "skipped"
           /\ db' = db
           /\ IF idx < TierLen
              THEN pc' = "scan_spot" /\ idx' = idx + 1 /\ (idx + 1) \in fetched'
              ELSE pc' = SleepOf(tier) /\ scanEnd' = "complete"

C1_AllFetched ==
    (pc \in {"sleep_fast", "sleep_slow"} /\ scanEnd = "complete")
        => fetched = 1..TierLen

C1_PartialFailureIsolation == []C1_AllFetched /\ [][C1_RaiseStep]_vars

C1_Witness == pc = "scan_spot" /\ \E i \in raisedAt : i < idx

\* C2: main_loop never ends on its own: no exception leaves it, and as long
\* as it is not cancelled it comes back to the top of the while loop again
\* and again.
C2_LoopNeverTerminates ==
    [](pc # "crashed") /\ []<>(pc \in {"top", "cancelled"})

C2_Witness == pc = "top" /\ scanEnd = "raised"

\* C3: for every signal, save_signal is called iff the spread is at least
\* THRESHOLD_PERCENT, and notify_subscribers is called iff the spread is at
\* least THRESHOLD_PERCENT and at least THRESHOLD_NOTIFY_PERCENT
\* (spot 50000 / derivative 50250: no persistence call).
C3_ThresholdRouting ==
    /\ signal.kind = "signal" => route.kind = "routed"
    /\ pc = "notifying" => (route.kind = "routed" /\ route.notifyCalled)
    /\ route.kind = "routed" =>
         LET s == evalIn.spot_price
             f == evalIn.futures_price
             geLog == Abs(f - s) * 100 * THRESHOLD_PERCENT.den
                          >= THRESHOLD_PERCENT.num * s
             geNotify == Abs(f - s) * 100 * THRESHOLD_NOTIFY_PERCENT.den
                             >= THRESHOLD_NOTIFY_PERCENT.num * s
         IN /\ route.saveCalled <=> geLog
            /\ route.notifyCalled <=> (geLog /\ geNotify)
            /\ route.notifyCalled => pc \in {"notifying", "cancelled"}
            /\ (s = 50000 /\ f = 50250) => ~route.saveCalled

C3_Witness ==
    /\ route.kind = "routed" /\ route.saveCalled /\ ~route.notifyCalled
    /\ evalIn.spot_price = 200 /\ evalIn.futures_price = 203

\* C4: a signal handed to save_signal while the database is available is
\* stored and save_signal returns True.
C4_SavedWhenAvailable ==
    (route.kind = "routed" /\ route.saveCalled /\ route.available)
        => /\ route.saveOk
           /\ Len(db) > 0
           /\ db[Len(db)].spot_price = signal.dict.spot_price

\* C5: fetch_data_for_pair returns a signal iff both prices are strictly
\* positive; it returns none when a price is <= 0, the sentinel 0 included.
C5_SignalIffPositive ==
    /\ evalIn.kind = "eval" =>
         ((signal.kind = "signal")
             <=> (evalIn.spot_price > 0 /\ evalIn.futures_price > 0))
    /\ evalIn.kind # "eval" => signal.kind # "signal"
    /\ signal.kind = "signal" =>
         /\ signal.dict.spot_price = evalIn.spot_price
         /\ signal.dict.futures_price = evalIn.futures_price

C5_Witness ==
    /\ evalIn.kind = "eval"
    /\ evalIn.spot_price > 0 /\ evalIn.futures_price = 0
    /\ signal.kind = "none"

SpreadIsFormula ==
    LET s == evalIn.spot_price
        f == evalIn.futures_price
        sp == signal.dict.spread_percent
    IN /\ sp.den > 0 /\ sp.num >= 0
       /\ RatEq(sp, [num |-> Abs(f - s) * 100, den |-> s])

\* C6 as claimed: the spread is |derivative - spot| / spot * 100 >= 0,
\* the direction is 'derivative higher' exactly when derivative > spot and
\* 'spot higher' exactly when spot > derivative.
C6_DirectionStrict ==
    signal.kind = "signal" =>
        LET s == evalIn.spot_price
            f == evalIn.futures_price
        IN /\ SpreadIsFormula
           /\ (signal.dict.bid_ask = "Buy Spot / Sell Futures") <=> (f > s)
           /\ (signal.dict.bid_ask = "Buy Futures / Sell Spot") <=> (s > f)

\* C6 amended: the spread is |derivative - spot| / spot * 100 >= 0, the
\* direction is 'derivative higher' exactly when derivative > spot and
\* 'spot higher' exactly when spot >= derivative (equal prices included).
C6_DirectionNonStrict ==
    signal.kind = "signal" =>
        LET s == evalIn.spot_price
            f == evalIn.futures_price
        IN /\ SpreadIsFormula
           /\ (signal.dict.bid_ask = "Buy Spot / Sell Futures") <=> (f > s)
           /\ (signal.dict.bid_ask = "Buy Futures / Sell Spot") <=> (s >= f)
           /\ (Direction(signal.dict) = "futures above") <=> (f > s)

C6_Witness ==
    /\ signal.kind = "signal"
    /\ evalIn.spot_price = evalIn.futures_price
    /\ signal.dict.bid_ask = "Buy Futures / Sell Spot"

Holders == {t \in Tasks : fpc[t] \in Holding}

\* C7: any two consecutive returns of rate_limit() are at least
\* MIN_INTERVAL apart, whatever the interleaving of the callers.
C7_GrantSpacing == lastGap >= MIN_INTERVAL

\* C8: at most API_MAX_CONCURRENT_REQUESTS fetch calls hold a slot of the
\* semaphore.
C8_AtMostMaxConcurrent == Cardinality(Holders) <= API_MAX_CONCURRENT_REQUESTS

C8_Witness ==
    /\ Cardinality(Holders) = API_MAX_CONCURRENT_REQUESTS
    /\ \E t \in Tasks : fpc[t] = "acquire"

\* C9: a call holds its slot from the acquisition to its end, through
\* retries and backoff sleeps, and gives it back however it ends: the free
\* slots plus the calls in flight are always API_MAX_CONCURRENT_REQUESTS.
C9_SlotAccounting ==
    /\ sem + Cardinality(Holders) = API_MAX_CONCURRENT_REQUESTS
    /\ Holders = {} => sem = API_MAX_CONCURRENT_REQUESTS

C9_Witness ==
    /\ {"return", "sentinel", "cancelled"} \subseteq exits
    /\ Holders = {}
    /\ sem = API_MAX_CONCURRENT_REQUESTS

\* C10: fetch_spot_price issues at most RETRIES ticker requests, never
\* raises, and returns (0, 0) when every attempt failed.
C10_SpotBoundedRetries ==
    /\ \A t \in Tasks : KindOf(t) = "spot" => requests[t] <= RETRIES
    /\ (lastExit.how # "none" /\ KindOf(lastExit.task) = "spot") =>
         /\ lastExit.how # "raised"
         /\ lastExit.requests <= RETRIES
         /\ lastExit.how = "sentinel" =>
              /\ lastExit.value = SpotValue(0, 0)
              /\ lastExit.requests = RETRIES

C10_Witness ==
    /\ lastExit.how = "sentinel"
    /\ KindOf(lastExit.task) = "spot"
    /\ lastExit.requests = RETRIES

\* the call that received a rate-limited response in this step
RateLimited(t) == fpc[t] = "request" /\ fpc'[t] # "request" /\ rateLimited'

\* C11: fetch_spot_price treats a payload from which no price can be parsed
\* (neither lastPrice nor price present) as a failed attempt, so a zero price
\* is returned only by the exhausted retry loop, after RETRIES requests, and
\* then with zero volume.
C11_ZeroPriceOnlyAfterRetries ==
    (lastExit.how \in {"return", "sentinel"} /\ KindOf(lastExit.task) = "spot"
        /\ lastExit.value.price = 0) =>
        /\ lastExit.how = "sentinel"
        /\ lastExit.requests = RETRIES
        /\ lastExit.value.volume = 0

\* C12: fetch_futures_price issues at most RETRIES ticker requests whatever
\* the attempts' outcomes are, never raises, returns 0 when the attempts are
\* exhausted, and answers a rate-limited response (code 510) with a backoff
\* that is followed by the next attempt or by the exhausted loop's 0.
C12_FuturesExits ==
    /\ \A t \in Tasks : KindOf(t) = "futures" => requests[t] <= RETRIES
    /\ (lastExit.how # "none" /\ KindOf(lastExit.task) = "futures") =>
         /\ lastExit.how # "raised"
         /\ lastExit.requests <= RETRIES
         /\ lastExit.how = "sentinel" =>
              /\ lastExit.value = FuturesValue(0)
              /\ lastExit.requests = RETRIES

C12_RateLimitedStep ==
    \A t \in Tasks :
        /\ (KindOf(t) = "futures" /\ RateLimited(t)) =>
              /\ fpc'[t] = "backoff"
              /\ remaining'[t] = BACKOFF_UNIT * (attempt[t] + 1)
              /\ attempt'[t] = attempt[t]
              /\ lastExit' = lastExit
        /\ (KindOf(t) = "futures" /\ fpc[t] = "backoff" /\ fpc'[t] # "backoff"
               /\ lastExit'.how # "cancelled") =>
              IF attempt[t] + 1 < RETRIES
              THEN fpc'[t] = "request" /\ attempt'[t] = attempt[t] + 1
                     /\ requests'[t] = requests[t] + 1
              ELSE fpc'[t] = "done" /\ lastExit'.how = "sentinel"
                     /\ lastExit'.task = t

C12_FuturesBoundedRetries == []C12_FuturesExits /\ [][C12_RateLimitedStep]_vars

C12_Witness ==
    /\ rateLimited
    /\ \E t \in Tasks : /\ KindOf(t) = "futures"
                        /\ fpc[t] = "backoff"
                        /\ requests[t] = RETRIES

\* the ranked spot symbols that get_top_symbol_pairs looks at, the canonical
\* map of the listing, and the ranks of the symbols that match
Ranked(c) == SubSeq(c.ranking, 1, Min(Len(c.ranking), c.limit * 3))

CanonicalMap(c) ==
    futures_norm_map(get_futures_symbols(c.listing).symbols, EmptyMap)

Matches(c) ==
    {i \in 1..Len(Ranked(c)) :
        /\ ~Contains(Ranked(c)[i], TRUMP)
        /\ normalize_symbol(Ranked(c)[i], "spot") \in DOMAIN CanonicalMap(c)}

\* the j-th match in ranking order
NthMatch(c, j) ==
    CHOOSE i \in Matches(c) : Cardinality({k \in Matches(c) : k < i}) = j - 1

\* C13: get_top_symbol_pairs(limit) returns exactly the first
\* min(limit, number of matches) ranked spot symbols that do not contain
\* "TRUMP" and whose canonical form is a key of the canonical map of the
\* listing, in ranking order, each paired with the contract the map holds
\* for that form; it never returns more than limit pairs.
C13_FirstMatchesInOrder ==
    refresh.kind = "call" =>
        /\ refresh.result.kind = "ok"
        /\ LET res == refresh.result.pairs
           IN /\ Len(res) = Min(refresh.limit, Cardinality(Matches(refresh)))
              /\ Len(res) <= refresh.limit
              /\ \A j \in 1..Len(res) :
                    LET spot_sym == Ranked(refresh)[NthMatch(refresh, j)]
                    IN res[j] = <<spot_sym,
                                 CanonicalMap(refresh)[normalize_symbol(spot_sym, "spot")]>>

\* ranking [A, X, B] with contracts for A and B only gives [A, B]
C13_Witness ==
    /\ refresh.kind = "call"
    /\ refresh.ranking = <<SpotSym(<<"A">>), SpotSym(<<"X">>), SpotSym(<<"B">>)>>
    /\ refresh.limit = 2
    /\ refresh.result.pairs = << <<SpotSym(<<"A">>), Contract(<<"A">>)>>,
                                 <<SpotSym(<<"B">>), Contract(<<"B">>)>> >>

\* C14: when the request of the contract listing fails, or its "data" is
\* not a list, get_top_symbol_pairs returns an empty list without raising
\* and main_loop goes on to the rest of the iteration with no pairs.
C14_ListingFailureGivesNoPairs ==
    (refresh.kind = "call" /\ refresh.listing.kind \in {"transport_error", "not_list"}) =>
        /\ refresh.result = [kind |-> "ok", pairs |-> <<>>]
        /\ pairs = <<>>
        /\ pc = "top"

C14_Witness ==
    /\ refresh.kind = "call"
    /\ refresh.listing.kind = "not_list"
    /\ refresh.result.pairs = <<>>
    /\ pc = "top"
    /\ elapsed = 0

\* C15: at the top of an iteration main_loop refreshes the pairs exactly
\* when it is the first iteration, or more than PAIRS_UPDATE_INTERVAL has
\* passed since the recorded refresh time, or the pair list is empty; every
\* refresh records its time, whether its result is empty or not, so an
\* empty result is refreshed again at the next iteration whatever time has
\* passed.
C15_RefreshStep ==
    /\ pc = "top" =>
          (pc' = "refreshing" <=> (elapsed > PAIRS_UPDATE_INTERVAL \/ pairs = <<>>))
    /\ (pc = "top" /\ pairs = <<>>) => pc' = "refreshing"
    /\ (pc = "refreshing" /\ pc' \notin {"refreshing", "cancelled"}) => elapsed' = 0

C15_RefreshIff ==
    /\ (pc = "top" /\ (elapsed > PAIRS_UPDATE_INTERVAL \/ pairs = <<>>))
    /\ [][C15_RefreshStep]_vars

C15_Witness ==
    /\ pc = "refreshing"
    /\ pairs = <<>>
    /\ elapsed = 0
    /\ refresh.kind = "none"

\* C16: the tiers partition the pair list: the fast tier is its first
\* FAST_TIER_SIZE pairs, the slow tier the rest, fast followed by slow is
\* the pair list, no pair is in both, and splitting again changes nothing.
C16_TiersPartition ==
    LET fast == FastPairs(pairs)
        slow == SlowPairs(pairs)
    IN /\ fast \o slow = pairs
       /\ Len(fast) <= FAST_TIER_SIZE
       /\ fast = [i \in 1..Min(Len(pairs), FAST_TIER_SIZE) |-> pairs[i]]
       /\ slow = [i \in 1..(Len(pairs) - Len(fast)) |-> pairs[Len(fast) + i]]
       /\ \A i \in 1..Len(fast), j \in 1..Len(slow) : fast[i] # slow[j]
       /\ FastPairs(fast \o slow) = fast
       /\ SlowPairs(fast \o slow) = slow
       /\ pc \in ScanPcs => idx \in 1..Len(IF tier = "fast" THEN fast ELSE slow)

C16_Witness ==
    /\ Len(pairs) > FAST_TIER_SIZE
    /\ pc = "scan_spot"
    /\ tier = "slow"
    /\ idx = Len(pairs) - FAST_TIER_SIZE

\* C17: every iteration of main_loop passes through the fast sleep, also
\* when the fast tier is empty: the loop comes back to its top only from a
\* sleep, so two refreshes are separated by a sleep.
C17_SleepInEveryIteration ==
    [][(pc # "top" /\ pc' = "top") => pc \in {"sleep_fast", "sleep_slow"}]_vars

C18_SlowStep ==
    /\ (pc = "sleep_fast" /\ pc' \notin {"sleep_fast", "cancelled"}) =>
          /\ elapsed' = Advance(elapsed, CHECK_INTERVAL_FAST)
          /\ IF Len(pairs) > FAST_TIER_SIZE
             THEN pc' = "scan_spot" /\ tier' = "slow" /\ idx' = 1
             ELSE pc' = "top"
    /\ (pc \in ScanPcs /\ tier = "slow" /\ pc' \notin ScanPcs \cup {"cancelled"}) =>
          /\ pc' = "sleep_slow"
          /\ scanEnd' \in {"complete", "raised"}
    /\ (pc = "sleep_slow" /\ pc' \notin {"sleep_slow", "cancelled"}) =>
          /\ pc' = "top"
          /\ elapsed' = Advance(elapsed, CHECK_INTERVAL_SLOW)
    /\ pc' = "sleep_slow" => Len(pairs) > FAST_TIER_SIZE

C19_FastTierEveryFastInterval ==
    (pc \in ScanPcs /\ tier = "fast" /\ sinceFast >= 0) =>
        sinceFast = CHECK_INTERVAL_FAST

\* C20: main_loop cycles refresh -> fast scan -> slow scan -> refresh: the
\* pair list changes only in a refresh, a refresh starts only at the top of
\* an iteration, the fast scan starts at the start of the iteration, the
\* slow scan starts only after the fast scan and its sleep, so both scans of
\* an iteration use the same pair list.
C20_CycleStep ==
    /\ pairs' # pairs => pc = "refreshing"
    /\ (pc' = "refreshing" /\ pc # "refreshing") => pc = "top"
    /\ (pc' \in ScanPcs /\ tier' = "fast" /\ ~(pc \in ScanPcs /\ tier = "fast")) =>
          pc \in {"top", "refreshing"}
    /\ (pc' \in ScanPcs /\ tier' = "slow" /\ ~(pc \in ScanPcs /\ tier = "slow")) =>
          /\ pc = "sleep_fast"
          /\ tier = "fast"
          /\ scanEnd \in {"complete", "raised"}
    /\ (pc' = "top" /\ pc # "top") => pc \in {"refreshing", "sleep_fast", "sleep_slow"}

C20_CyclicOrder == [][C20_CycleStep]_vars

C20_Witness ==
    /\ pc = "scan_spot"
    /\ tier = "slow"
    /\ scanEnd = "running"
    /\ elapsed = CHECK_INTERVAL_FAST

\* C21: a cancellation of the scan task can be delivered at every await of
\* the loop (tier sleeps, the fetches with their limiter wait, backoff and
\* request, the fan-out); it ends the loop there, is not turned into a
\* skipped pair or a tier sleep by the exception handlers, and afterwards
\* no fetch, save_signal or notify_subscribers is started.
C21_CancelStep ==
    /\ pc # "cancelled"
    /\ (pc' = "cancelled") =>
          /\ pc \in {"refreshing", "scan_spot", "scan_futures", "notifying",
                      "sleep_fast", "sleep_slow"}
          /\ UNCHANGED <<tier, elapsed, pairs, idx, fetched, raisedAt, scanEnd,
                         route, db, sinceFast>>

C21_CancellationEndsLoop ==
    /\ [](pc \in {"refreshing", "scan_spot", "scan_futures", "notifying",
                   "sleep_fast", "sleep_slow"} => ENABLED Cancel)
    /\ [][C21_CancelStep]_vars

C21_Witness ==
    /\ pc = "cancelled"
    /\ scanEnd = "running"
    /\ tier = "slow"
    /\ spot # None

\* C26: normalizing a spot symbol twice gives what normalizing it once gives.
C26_SpotIdempotent ==
    Len(norm.outs) = 2 => norm.outs[2] = norm.outs[1]

\* C27: the spot normalization of a symbol is the symbol without its
\* trailing USDT or USD; every other character, also a USDT or USD at the
\* start or in the middle, is kept.
C27_SpotStripsTrailingOnly ==
    Len(norm.outs) >= 1 =>
        LET s == norm.s
            n == Len(s)
            ends(x) == n >= Len(x) /\ SubSeq(s, n - Len(x) + 1, n) = x
        IN norm.outs[1] =
             IF ends(<<"U", "S", "D", "T">>) THEN SubSeq(s, 1, n - 4)
             ELSE IF ends(<<"U", "S", "D">>) THEN SubSeq(s, 1, n - 3)
             ELSE s

\* the calls of one upstream that hold a slot
HoldersOf(k) == {t \in Holders : KindOf(t) = k}

C28_SharedStep ==
    LET held == Cardinality(HoldersOf("spot")) + Cardinality(HoldersOf("futures"))
    IN \A t \in Tasks :
        /\ (fpc[t] \in {"idle", "acquire"} /\ fpc'[t] \in Holding) =>
              /\ held < API_MAX_CONCURRENT_REQUESTS
              /\ sem' = sem - 1
        /\ (fpc[t] = "idle" /\ fpc'[t] = "acquire") =>
              held = API_MAX_CONCURRENT_REQUESTS
        /\ (requests[t] = 0 /\ requests'[t] = 1) => since_last' = 0
        /\ (fpc[t] \in {"idle", "acquire"} /\ fpc'[t] = "rl_sleep") =>
              /\ since_last < MIN_INTERVAL
              /\ remaining'[t] = MIN_INTERVAL - since_last

C29_RetryStep ==
    \A t \in Tasks :
        (KindOf(t) = "futures" /\ requests[t] >= 1 /\ requests'[t] = requests[t] + 1)
            => fpc[t] = "backoff"

\* C29: within one fetch_futures_price call every request after the first
\* is issued out of the backoff sleep that followed the failed attempt
\* before it, whatever made that attempt fail.
C29_BackoffBeforeEveryRetry == [][C29_RetryStep]_vars

C23_AtMostFiveInFlight ==
    Cardinality({u \in Users : npc[u] = "sending"}) <= NOTIFY_CONCURRENCY

C23_Witness ==
    /\ Cardinality({u \in Users : npc[u] = "sending"}) = NOTIFY_CONCURRENCY
    /\ \E u \in Users : npc[u] = "waiting"
    /\ Cardinality(round.recipients) > NOTIFY_CONCURRENCY

C24_EmptyStep ==
    (round.phase \in {"idle", "returned"} /\ round'.recipients = {}) =>
        /\ round'.phase \in {"idle", "returned"}
        /\ \A u \in Users : npc'[u] = "none" /\ attempts'[u] = 0

\* C24: a call of notify_subscribers that reads an empty subscriber list
\* returns at once and normally: no send_message is started, no send is
\* attempted, nothing is raised, so that the caller goes on.
C24_EmptyRoundIsNoOp ==
    /\ [](round.recipients = {} => round.phase \in {"idle", "returned"})
    /\ [][C24_EmptyStep]_vars

C24_Witness ==
    /\ round.phase = "returned"
    /\ round.recipients = {}
    /\ ~round.readFailed
    /\ subs = {}
    /\ round.prev # {}

C25_RoundStep ==
    /\ (round.phase \in {"idle", "returned"} /\ round' # round) =>
          round'.recipients = (IF round'.readFailed THEN {} ELSE subs)
    /\ round.phase = "dispatching" => round'.recipients = round.recipients
    /\ \A u \in Users :
          (npc'[u] # "none" \/ attempts'[u] > 0) => u \in round'.recipients

\* C25: every call of notify_subscribers reads the subscribers table anew,
\* so that its recipients are the users subscribed when it starts (a user
\* who subscribed or unsubscribed since the call before is in or out); while
\* the round runs its recipients stay what was read, and only they are sent
\* to, whoever subscribes or unsubscribes meanwhile.
C25_SubscribersReadEachRound == [][C25_RoundStep]_vars

C25_Witness ==
    /\ round.phase = "dispatching"
    /\ ~round.readFailed
    /\ round.recipients \ round.prev # {}
    /\ round.prev \ round.recipients # {}
    /\ subs # round.recipients
    /\ \E u \in Users : attempts[u] = 1

C30_SlotStep ==
    \A u \in Users :
        /\ (npc[u] = "sending" /\ npc'[u] # "sending") =>
              IF outcome'[u] = "timed_out"
              THEN /\ npc'[u] = "cooldown"
                   /\ cool'[u] = TIMEOUT_COOLDOWN
                   /\ nsem' = nsem
              ELSE /\ npc'[u] = "done"
                   /\ nsem' = nsem + 1
        /\ (npc[u] = "cooldown" /\ npc'[u] # "cooldown") =>
              /\ cool[u] = 0
              /\ npc'[u] = "done"
              /\ nsem' = nsem + 1

\* C30: a send that ends in TimedOut keeps its slot of sem_notify for
\* TIMEOUT_COOLDOWN more seconds, and only then gives it back; a send that
\* succeeds or fails in another way gives its slot back at once.
C30_TimeoutKeepsSlot ==
    /\ [](nsem + Cardinality({u \in Users : npc[u] \in {"sending", "cooldown"}})
             = NOTIFY_CONCURRENCY)
    /\ [][C30_SlotStep]_vars

C30_Witness ==
    /\ \E u \in Users : npc[u] = "cooldown" /\ cool[u] = 0 /\ outcome[u] = "timed_out"
    /\ \E u \in Users : npc[u] = "waiting"
    /\ nsem = 0

C31_PairsStep ==
    /\ pairs' # pairs =>
          /\ pc = "refreshing"
          /\ refresh'.kind = "call"
          /\ pairs' = refresh'.result.pairs
    /\ (pc \in ScanPcs \cup {"sleep_fast", "sleep_slow", "top"}) => pairs' = pairs

\* C31: the pair list changes only in the step in which a refresh returns,
\* and then to the whole result of that refresh; the steps that scan,
\* evaluate, persist, notify or sleep leave its content and order as they
\* are, so every scan between two refreshes runs over the same pairs.
C31_PairsOnlyReplacedByRefresh == [][C31_PairsStep]_vars

C31_Witness ==
    /\ pc = "scan_spot"
    /\ tier = "fast"
    /\ Len(pairs) = MaxPairs
    /\ elapsed = CHECK_INTERVAL_FAST + CHECK_INTERVAL_SLOW

\* C32: with the send function that main.start_monitoring passes, the
\* dispatch to every recipient of a round reaches the transport: no
\* dispatch ends in an error of the call itself, and with a healthy
\* transport every recipient's send is accepted.
C32_MainFuncReachesTransport ==
    (sendFunc = MainLambda /\ round.phase = "returned") =>
        \A u \in round.recipients : outcome[u] \in SendOutcomes

C33_RaiseStep ==
    /\ (pc = "notifying" /\ scanEnd' = "raised") =>
          /\ pc' \in {"sleep_fast", "sleep_slow"}
          /\ pc' = (IF tier = "fast" THEN "sleep_fast" ELSE "sleep_slow")
          /\ UNCHANGED <<tier, idx, fetched, pairs, elapsed>>
    /\ (scanEnd = "raised" /\ pc = "sleep_fast" /\ pc' \notin {"sleep_fast", "cancelled"}) =>
          /\ elapsed' = Min(elapsed + CHECK_INTERVAL_FAST, PAIRS_UPDATE_INTERVAL + 1)
          /\ IF Len(pairs) > FAST_TIER_SIZE
             THEN pc' = "scan_spot" /\ tier' = "slow" /\ idx' = 1
             ELSE pc' = "top"
    /\ (scanEnd = "raised" /\ pc = "sleep_slow" /\ pc' \notin {"sleep_slow", "cancelled"}) =>
          /\ elapsed' = Min(elapsed + CHECK_INTERVAL_SLOW, PAIRS_UPDATE_INTERVAL + 1)
          /\ pc' = "top"
    /\ (scanEnd = "raised" /\ pc = "top" /\ pc' \notin {"top", "refreshing"}) =>
          pc' = "scan_spot" /\ tier' = "fast" /\ idx' = 1

\* C33: an Exception that leaves notify_subscribers (save_signal lets none
\* out) is not caught per pair: it ends the scan of the tier, whose later
\* pairs are not fetched in this cycle; main_loop catches it, so the loop
\* does not end, the sleep of the tier follows, and after it the other tier
\* is scanned.
C33_TierLevelHandling ==
    /\ [](pc = "notifying" => ENABLED (NotifyReturns /\ scanEnd' = "raised"))
    /\ [](scanEnd = "raised" => pc \in {"sleep_fast", "sleep_slow", "top",
                                         "refreshing", "cancelled"})
    /\ [][C33_RaiseStep]_vars

C33_Witness ==
    /\ scanEnd = "raised"
    /\ pc = "sleep_fast"
    /\ idx < FAST_TIER_SIZE
    /\ Len(pairs) > FAST_TIER_SIZE
    /\ idx \notin raisedAt

C34_EmptyRefreshStep ==
    /\ (pc = "refreshing" /\ refresh'.kind = "call" /\ refresh'.result.kind = "ok"
           /\ refresh'.result.pairs = <<>>) =>
          /\ pairs' = <<>>
          /\ pc' = "top"
    /\ (pairs = <<>> /\ pairs' # <<>>) =>
          /\ pc = "refreshing"
          /\ refresh'.kind = "call"
          /\ refresh'.result.pairs = pairs'

\* C34: when a refresh returns an empty list, the pair list held before is
\* gone: the list is empty after it, no pair is scanned while it is empty,
\* and it becomes non-empty again only by a later refresh that returns
\* pairs.
C34_EmptyRefreshDiscardsPairs ==
    /\ [](pairs = <<>> => pc \in {"top", "refreshing", "cancelled", "crashed"})
    /\ [][C34_EmptyRefreshStep]_vars

C34_Witness ==
    /\ pc = "top"
    /\ pairs = <<>>
    /\ refresh.kind = "call"
    /\ scanEnd = "complete"

\* the legs of fetch_data_for_pair that main_loop is awaiting
C35_InFlight ==
    IF pc = "scan_spot" THEN {<<idx, "spot">>}
    ELSE IF pc = "scan_futures" THEN {<<idx, "futures">>}
    ELSE {}

C35_SequentialStep ==
    /\ (pc = "scan_spot" /\ pc' \notin {"scan_spot", "cancelled"}
           /\ raisedAt' = raisedAt) =>
          /\ pc' = "scan_futures"
          /\ idx' = idx
          /\ tier' = tier
          /\ spot'.kind = "ok"
    /\ (pc' = "scan_futures" /\ pc # "scan_futures") => pc = "scan_spot"
    /\ (pc' = "scan_spot" /\ (pc # "scan_spot" \/ idx' # idx)) =>
          \/ /\ pc \in {"scan_spot", "scan_futures", "notifying"}
             /\ idx' = idx + 1
             /\ tier' = tier
          \/ /\ pc \in {"top", "refreshing", "sleep_fast"}
             /\ idx' = 1

\* C35: the pairs of a tier are taken one after the other in the order of
\* the list; for each pair the derivative fetch is started when the spot
\* fetch has returned, also when it returned the sentinel 0, and the next
\* pair is started when the pair before is done. The loop is therefore
\* awaiting at most one fetch at any time.
C35_SequentialScan ==
    /\ [](Cardinality(C35_InFlight) <= 1)
    /\ [](pc \in {"scan_spot", "scan_futures", "notifying"} => fetched = 1..idx)
    /\ [][C35_SequentialStep]_vars

C35_Witness ==
    /\ pc = "scan_futures"
    /\ spot.kind = "ok"
    /\ spot.price = 0
    /\ idx = 2
    /\ raisedAt = {}

C36_FanOutStep ==
    (pc' = "notifying" /\ pc # "notifying") =>
        /\ pc = "scan_futures"
        /\ signal'.kind = "signal"
        /\ route'.kind = "routed"
        /\ route'.idx = idx
        /\ route'.saveCalled
        /\ route'.notifyCalled
        /\ ~route'.saveOk => db' = db

\* C36: notify_subscribers is started for a signal only in the step in which
\* save_signal was called for that signal and has returned, and it is
\* started for every saved-or-not signal whose spread is at least
\* THRESHOLD_NOTIFY_PERCENT: a save that failed does not hold it back. A
\* signal for which save_signal was not called is not fanned out.
C36_FanOutAfterSave ==
    /\ [](route.kind = "routed" =>
             /\ route.notifyCalled => route.saveCalled
             /\ route.saveCalled =>
                  (route.notifyCalled <=>
                      Abs(evalIn.futures_price - evalIn.spot_price) * 100
                          * THRESHOLD_NOTIFY_PERCENT.den
                        >= THRESHOLD_NOTIFY_PERCENT.num * evalIn.spot_price))
    /\ [][C36_FanOutStep]_vars

C36_Witness ==
    /\ pc = "notifying"
    /\ route.kind = "routed"
    /\ route.saveCalled
    /\ ~route.saveOk
    /\ route.available
    /\ route.notifyCalled

\* the positions of the listed contract symbols whose canonical form is that
\* of the spot symbol
C37_Listed(c, spot_sym) ==
    LET syms == get_futures_symbols(c.listing).symbols
    IN {i \in 1..Len(syms) :
           /\ syms[i].t = "str"
           /\ normalize_symbol(syms[i].v, "futures") = normalize_symbol(spot_sym, "spot")}

\* C37: every pair returned by get_top_symbol_pairs holds, for its spot
\* symbol, the contract symbol that is listed last among the contract
\* symbols with the spot symbol's canonical form; spot symbols with the same
\* canonical form are therefore paired with the same contract symbol.
C37_LastListedWins ==
    refresh.kind = "call" =>
        LET res == refresh.result.pairs
            syms == get_futures_symbols(refresh.listing).symbols
        IN /\ \A j \in 1..Len(res) :
                 LET at == C37_Listed(refresh, res[j][1])
                 IN /\ at # {}
                    /\ res[j][2] = syms[CHOOSE i \in at : \A k \in at : k <= i].v
           /\ \A j, k \in 1..Len(res) :
                 normalize_symbol(res[j][1], "spot") = normalize_symbol(res[k][1], "spot")
                     => res[j][2] = res[k][2]

\* contracts A_USDT and A_PERP are listed in this order; AUSDT and AUSDUSDT
\* are both paired with A_PERP
C37_Witness ==
    /\ refresh.kind = "call"
    /\ get_futures_symbols(refresh.listing).symbols =
          << Str(Contract(<<"A">>)), Str(<<"A", "_", "P", "E", "R", "P">>) >>
    /\ refresh.result.pairs =
          << <<SpotSym(<<"A">>), <<"A", "_", "P", "E", "R", "P">> >>,
             <<SpotSym(<<"A", "U", "S", "D">>), <<"A", "_", "P", "E", "R", "P">> >> >>

\* C38: a call get_top_symbols(limit) that does not fail returns the first
\* limit symbols of the volume ranking (all of them when there are fewer),
\* in ranking order, also when it is answered from the cache; a call whose
\* request fails returns the empty list.
C38_TopSymbolsForAnyLimit ==
    /\ loader.call.how \in {"cache", "fetched"} =>
          loader.call.result =
              SubSeq(loader.source, 1, Min(Len(loader.source), loader.call.limit))
    /\ loader.call.how = "failed" => loader.call.result = <<>>

\* C39: for every spread (in percent, not negative) and volume: the strength
\* is 'very strong' from 8, 'strong' from 5, 'medium' from 3, else
\* 'moderate'; the liquidity is 'high' above 5,000,000, 'medium' above
\* 1,000,000, else 'low'; the leverage is the smaller of
\* floor(spread * RISK_MULTIPLIER) and 20, hence within 0..20; the stop-loss
\* is the larger of 1 and spread / 2.
C39_BreakpointLookups ==
    cls.kind = "done" =>
        LET n == cls.spread.num
            d == cls.spread.den
            v == cls.volume
            sl == cls.risk.stop_loss
        IN /\ cls.strength = "very strong" <=> n >= 8 * d
           /\ cls.strength = "strong" <=> (n >= 5 * d /\ n < 8 * d)
           /\ cls.strength = "medium" <=> (n >= 3 * d /\ n < 5 * d)
           /\ cls.strength = "moderate" <=> n < 3 * d
           /\ cls.liquidity = "high" <=> v > 5000000
           /\ cls.liquidity = "medium" <=> (v > 1000000 /\ v <= 5000000)
           /\ cls.liquidity = "low" <=> v <= 1000000
           /\ cls.risk.leverage \in 0..20
           /\ \E fl \in 0..(n * RISK_MULTIPLIER) :
                 /\ fl * d <= n * RISK_MULTIPLIER
                 /\ n * RISK_MULTIPLIER < (fl + 1) * d
                 /\ cls.risk.leverage = (IF fl < 20 THEN fl ELSE 20)
           /\ sl.num * d * 2 >= n * sl.den
           /\ sl.num >= sl.den
           /\ (sl.num * d * 2 = n * sl.den) \/ (sl.num = sl.den)

\* spread 8 %, volume 5,000,001: capped leverage, stop-loss 4
C39_Witness ==
    /\ cls.kind = "done"
    /\ cls.spread.num = 8 * cls.spread.den
    /\ cls.volume = 5000001
    /\ cls.strength = "very strong"
    /\ cls.liquidity = "high"
    /\ cls.risk.leverage = 20
    /\ cls.risk.stop_loss.num = 4 * cls.risk.stop_loss.den

\* the user of the last call had a row in the table before the call
C40_Subscribed == \E i \in DOMAIN dbcall.before : dbcall.before[i] = dbcall.user

\* no two rows of the table hold the same user
C40_NoDuplicate ==
    \A i, j \in DOMAIN subscribers : subscribers[i] = subscribers[j] => i = j

\* C40 (as stated): the registry never holds a recipient twice; add_subscriber
\* returns True exactly when the user was not subscribed before,
\* remove_subscriber returns True exactly when the user was subscribed; an
\* add of a subscribed user and a remove of an unsubscribed user leave the
\* registry unchanged.
C40_RegistryAsStated ==
    /\ C40_NoDuplicate
    /\ dbcall.op = "add" =>
         /\ dbcall.ret <=> ~C40_Subscribed
         /\ C40_Subscribed => subscribers = dbcall.before
    /\ dbcall.op = "remove" =>
         /\ dbcall.ret <=> C40_Subscribed
         /\ ~C40_Subscribed => subscribers = dbcall.before

\* C40 (amended): the same for the calls in which the database raises no
\* sqlite3.Error; a call in which it does returns False and leaves the
\* registry unchanged, whether or not the user was subscribed.
C40_RegistryUnlessError ==
    /\ C40_NoDuplicate
    /\ (dbcall.op = "add" /\ ~dbcall.error) =>
         /\ dbcall.ret <=> ~C40_Subscribed
         /\ C40_Subscribed => subscribers = dbcall.before
         /\ \E i \in DOMAIN subscribers : subscribers[i] = dbcall.user
    /\ (dbcall.op = "remove" /\ ~dbcall.error) =>
         /\ dbcall.ret <=> C40_Subscribed
         /\ ~C40_Subscribed => subscribers = dbcall.before
         /\ \A i \in DOMAIN subscribers : subscribers[i] # dbcall.user
    /\ dbcall.error => (~dbcall.ret /\ subscribers = dbcall.before)

\* a second add of a subscribed user: False, and the table as before
C40_Witness ==
    /\ dbcall.op = "add"
    /\ ~dbcall.error
    /\ C40_Subscribed
    /\ ~dbcall.ret
    /\ Len(subscribers) = NumUsers
    /\ subscribers = dbcall.before

====
